---- MODULE Spec2Model ----
(***************************************************************************)
(* The tri-store memory engine of claude-memory-kit: the canonical         *)
(* markdown store (CS), the SQLite/FTS5 lexical index (LX), the Qdrant     *)
(* vector index (VX) and the Neo4j relation index (RX), and the tool       *)
(* handlers remember, recall, forget and auto_extract that coordinate      *)
(* them.  Every handler is a small program counter machine whose steps     *)
(* are the store calls of the Rust code, each of which may fail.           *)
(***************************************************************************)
EXTENDS Integers, Sequences, FiniteSets, TLC

(***************************************************************************)
(* Bounds of the model.                                                    *)
(***************************************************************************)
\* the clock takes the values 0..MaxTime (one value = one second)
MaxTime == 1
\* at most MaxJournal journal entries are ever written
MaxJournal == 2
\* recall stops touching once a row has been accessed MaxAccess times
MaxAccess == 2
\* auto_extract receives at most MaxExtract entries from the extractor
MaxExtract == 1
\* at most MaxFaults store calls of the handlers fail
MaxFaults == 1
\* at most MaxReflects reflect calls are served
MaxReflects == 2
\* the text of a summarizer message has at most MaxText characters
MaxText == 4
\* the extractor returns at most MaxBatch entries when its text is parsed
MaxBatch == 2
\* a relation name passed to add_edge has at most MaxRelation characters
MaxRelation == 2
\* at most MaxEdges edges are added through add_edge
MaxEdges == 1

(***************************************************************************)
(* Inputs.                                                                 *)
(***************************************************************************)
None == "<none>"

\* the random part of an id (the first characters of a v4 uuid)
RandChars == {"a", "b"}

Reasons == {"stale"}

\* the tasks that run handlers; the sequential specification runs one
Procs == {"t1", "t2"}

SeqProcs == {"t1"}

ByteLen(content) ==
    CASE content = "note" -> 4
      [] content = "long" -> 90
      [] content = "wide" -> 90
      [] OTHER -> 0

\* "wide" holds a two-byte character at bytes 79..80
IsCharBoundary(content, k) ==
    IF content = "wide" THEN k # 80 ELSE TRUE

(***************************************************************************)
(* types.rs                                                                *)
(***************************************************************************)
ToLower(s) ==
    CASE s = "BEHAVIORAL" -> "behavioral"
      [] s = "Relational" -> "relational"
      [] s = "Epistemic" -> "epistemic"
      [] s = "pRoMiSsOrY" -> "promissory"
      [] s = "Never" -> "never"
      [] s = "Slow" -> "slow"
      [] s = "Moderate" -> "moderate"
      [] s = "Fast" -> "fast"
      [] OTHER -> s

\* the names are matched as they are spelled
Gate_from_str_exact(s) ==
    CASE s = "behavioral" -> "Behavioral"
      [] s = "relational" -> "Relational"
      [] s = "epistemic" -> "Epistemic"
      [] s = "promissory" -> "Promissory"
      [] OTHER -> None

\* Gate::from_str: the enum value, or None
Gate_from_str(s) ==
    CASE ToLower(s) = "behavioral" -> "Behavioral"
      [] ToLower(s) = "relational" -> "Relational"
      [] ToLower(s) = "epistemic" -> "Epistemic"
      [] ToLower(s) = "promissory" -> "Promissory"
      [] OTHER -> None

Gate_as_str(g) ==
    CASE g = "Behavioral" -> "behavioral"
      [] g = "Relational" -> "relational"
      [] g = "Epistemic" -> "epistemic"
      [] g = "Promissory" -> "promissory"

DecayClass_from_gate(g) ==
    CASE g = "Promissory" -> "Never"
      [] g = "Relational" -> "Slow"
      [] g = "Epistemic" -> "Moderate"
      [] g = "Behavioral" -> "Fast"

\* serde_json::to_string of a DecayClass (rename_all = lowercase)
DecayClass_to_json(d) ==
    CASE d = "Never" -> "\"never\""
      [] d = "Slow" -> "\"slow\""
      [] d = "Moderate" -> "\"moderate\""
      [] d = "Fast" -> "\"fast\""

(***************************************************************************)
(* store/markdown.rs                                                       *)
(***************************************************************************)
\* people and decisions exchanged
category_for_gate_swapped(g) ==
    CASE g = "Relational" -> "decisions"
      [] g = "Epistemic" -> "learnings"
      [] g = "Behavioral" -> "people"
      [] g = "Promissory" -> "commitments"

category_for_gate(g) ==
    CASE g = "Relational" -> "people"
      [] g = "Epistemic" -> "learnings"
      [] g = "Behavioral" -> "decisions"
      [] g = "Promissory" -> "commitments"

\* the digits and the lower-case letters
Digits ==
    <<"0", "1", "2", "3", "4", "5", "6", "7", "8", "9", "a", "b", "c", "d",
      "e", "f", "g", "h", "i", "j", "k", "l", "m", "n", "o", "p", "q", "r",
      "s", "t", "u", "v", "w", "x", "y", "z">>

\* an upper-case letter, and "e_acute" for a letter outside ASCII
Letters == {"Z", "e_acute"}

\* char::is_alphanumeric: the Unicode property Alphabetic or Numeric
IsAlphanumeric(c) == (\E i \in DOMAIN Digits : Digits[i] = c) \/ c \in Letters

\* every character that is neither alphanumeric nor '-' becomes '_'
slugify(s) ==
    [i \in DOMAIN s |-> IF IsAlphanumeric(s[i]) \/ s[i] = "-" THEN s[i] ELSE "_"]

(***************************************************************************)
(* store/sqlite.rs: the conversions of a row read back from the table      *)
(***************************************************************************)
parse_gate(s) ==
    IF Gate_from_str(s) = None THEN "Epistemic" ELSE Gate_from_str(s)

parse_decay(s) ==
    CASE s = "\"never\"" -> "Never"
      [] s = "\"slow\"" -> "Slow"
      [] s = "\"moderate\"" -> "Moderate"
      [] s = "\"fast\"" -> "Fast"
      [] OTHER -> "Moderate"

(***************************************************************************)
(* store/graph.rs                                                          *)
(***************************************************************************)
PreviewMax == 200

\* truncate(s, max): the whole text, or its first bytes up to a character
\* boundary followed by "..."
truncate(content, max) ==
    IF ByteLen(content) <= max
    THEN [text |-> content, bytes |-> ByteLen(content), dots |-> FALSE]
    ELSE [text |-> content,
          bytes |-> IF IsCharBoundary(content, max) THEN max ELSE max - 1,
          dots |-> TRUE]


(***************************************************************************)
(* State.                                                                  *)
(***************************************************************************)
VARIABLES
    now,        \* Utc::now(), in seconds
    journal,    \* CS journal/<date>.md: date -> sequence of lines
    longTerm,   \* CS long-term/<category>/<slug>.md: path -> file
    archive,    \* CS archive/<id>.md: id -> file
    lx,         \* LX table memories: id -> row
    vx,         \* VX collection: payload -> number of points carrying it
    rxNodes,    \* RX Memory nodes: id -> properties
    rxEdges,    \* RX edges: set of <<from, type, to>>
    vectors,    \* Store.vectors is Some
    graph,      \* Store.graph is Some
    lock,       \* holder of the store mutex, or None
    pc,         \* position of each task in its handler
    op,         \* the tool a task is serving
    mem,        \* the Memory do_remember has built
    arg,        \* argument of do_forget (memory_id, reason), do_recall (query)
                \* or do_remember (gate)
    queue,      \* entries do_auto_extract still has to save
    saved,      \* number of messages do_auto_extract has collected
    steps,      \* store calls the current do_remember / do_forget has made
    rem,        \* outcome of the do_remember that has just returned
    res,        \* outcome of the handler, once it has returned
    out,        \* result lines and backend answers of do_recall
    pre,        \* the stores as they were when the current call began
    pair,       \* the stores as they were before the remember just served
    faults,     \* number of store calls of the handlers that failed
    apiKey,     \* MemoryServer.api_key, from ANTHROPIC_API_KEY
    digests,    \* CS digests/<week>.md: week -> file
    archJournal, \* CS archive/journal/<date>.md: date -> file
    identity,   \* CS identity.md: its content, or None
    archIdentity, \* CS archive/identity/<date>.md: date -> content
    reflections \* number of reflect calls served so far

cs == <<journal, longTerm, archive>>

shadows == <<vx, rxNodes, rxEdges>>

conn == <<vectors, graph>>

consolidated ==
    <<apiKey, digests, archJournal, identity, archIdentity, reflections>>

task == <<pc, op, mem, arg, queue, saved, steps, rem, res, out, pre, pair>>

vars == <<now, journal, longTerm, archive, lx, vx, rxNodes, rxEdges,
          vectors, graph, lock, pc, op, mem, arg, queue, saved, steps, rem,
          res, out, pre, pair, faults, apiKey, digests, archJournal,
          identity, archIdentity, reflections>>

Empty == [x \in {} |-> 0]

NoMem == [id |-> <<>>, created |-> 0, gate |-> None, person |-> None,
          project |-> None, confidence |-> 0, last_accessed |-> 0,
          access_count |-> 0, decay_class |-> None, content |-> None]

NoArg == [id |-> <<>>, reason |-> None, query |-> None, gate |-> None,
          to |-> <<>>, relation |-> <<>>]

NoAnswer == [ok |-> FALSE, hits |-> <<>>]

NoOut == [lines |-> <<>>, lx |-> NoAnswer, touched |-> {}, vx |-> NoAnswer,
          rx |-> <<>>, files |-> {}, n |-> 0, trace |-> <<>>, at |-> 0,
          base |-> {}, cypher |-> <<>>,
          replies |-> <<>>, report |-> <<>>, stale |-> {}, todo |-> <<>>,
          dates |-> <<>>, text |-> None, written |-> <<>>, ended |-> FALSE,
          left |-> Empty, recent |-> <<>>]

Snapshot == [lx |-> lx, vx |-> vx, nodes |-> rxNodes, edges |-> rxEdges,
             journal |-> journal, longTerm |-> longTerm, archive |-> archive,
             digests |-> digests, archJournal |-> archJournal,
             identity |-> identity, archIdentity |-> archIdentity]

\* a fresh store root and idle tasks
InitStore ==
    /\ now = 0
    /\ journal = Empty
    /\ longTerm = Empty
    /\ archive = Empty
    /\ lx = Empty
    /\ vx = Empty
    /\ rxNodes = Empty
    /\ rxEdges = {}
    /\ vectors \in BOOLEAN
    /\ graph \in BOOLEAN
    /\ lock = None
    /\ pc = [p \in Procs |-> "idle"]
    /\ op = [p \in Procs |-> None]
    /\ mem = [p \in Procs |-> NoMem]
    /\ arg = [p \in Procs |-> NoArg]
    /\ queue = [p \in Procs |-> <<>>]
    /\ saved = [p \in Procs |-> 0]
    /\ steps = [p \in Procs |-> <<>>]
    /\ rem = [p \in Procs |-> None]
    /\ res = [p \in Procs |-> None]
    /\ out = [p \in Procs |-> NoOut]
    /\ pre = [p \in Procs |-> {}]
    /\ pair = {}
    /\ faults = 0
    /\ digests = Empty
    /\ archJournal = Empty
    /\ identity = None
    /\ archIdentity = Empty
    /\ reflections = 0

\* the server started with a summarizer credential
Init == InitStore /\ apiKey = "key"

\* time passes
Tick ==
    /\ now < MaxTime
    /\ now' = now + 1
    /\ UNCHANGED <<journal, longTerm, archive, lx, vx, rxNodes, rxEdges,
                   vectors, graph, lock, pc, op, mem, arg, queue, saved,
                   steps, rem, res, out, pre, pair, faults, consolidated>>


(***************************************************************************)
(* Helpers of the handlers.                                                *)
(***************************************************************************)
\* a day of the clock lasts DayLength seconds
DayLength == 2

\* timestamp.format("%Y-%m-%d")
Date(t) == t \div DayLength

\* one character for a number below 36
TimeChar(n) == Digits[n + 1]

\* format!("mem_{}_{}", now.format("%Y%m%d_%H%M%S"), &uuid[..4]): the date,
\* the time of day and the random part
NewId(t, r) ==
    <<"m", "_", TimeChar(Date(t)), "_", TimeChar(t % DayLength), "_", r>>

\* every id do_remember can allocate within the bounds
AllIds == {NewId(t, r) : t \in 0..MaxTime, r \in RandChars}

to_rfc3339(t) == <<"rfc3339", t>>

parse_dt(s) == IF Len(s) = 2 /\ s[1] = "rfc3339" THEN s[2] ELSE now

InitialConfidence == 90

\* the parameters index_memory binds to its INSERT OR REPLACE
RowOf(m) ==
    [id |-> m.id, created |-> to_rfc3339(m.created), gate |-> Gate_as_str(m.gate),
     person |-> m.person, project |-> m.project, confidence |-> m.confidence,
     last_accessed |-> to_rfc3339(m.last_accessed),
     access_count |-> m.access_count,
     decay_class |-> DecayClass_to_json(m.decay_class), content |-> m.content]

\* the Memory get_memory and search_fts build from a row
MemoryOfRow(r) ==
    [id |-> r.id, created |-> parse_dt(r.created), gate |-> parse_gate(r.gate),
     person |-> r.person, project |-> r.project, confidence |-> r.confidence,
     last_accessed |-> parse_dt(r.last_accessed),
     access_count |-> r.access_count,
     decay_class |-> parse_decay(r.decay_class), content |-> r.content]

\* serde_yaml::to_string(&memory): enums in lower case
to_yaml(m) ==
    [m EXCEPT !.gate = Gate_as_str(m.gate),
              !.decay_class = ToLower(m.decay_class)]

LongTermPath(m) == <<category_for_gate(m.gate), slugify(m.id)>>

Put(f, k, v) == [x \in DOMAIN f \cup {k} |-> IF x = k THEN v ELSE f[x]]

Drop(f, ks) == [x \in DOMAIN f \ ks |-> f[x]]

JournalFile(d) == IF d \in DOMAIN journal THEN journal[d] ELSE <<>>

EntriesIn(dir) ==
    {di \in UNION {{<<d, i>> : i \in DOMAIN dir[d]} : d \in DOMAIN dir} :
        dir[di[1]][di[2]].kind = "entry"}

\* the number of entries in journal/ and archive/journal/
JournalEntryCount ==
    Cardinality(EntriesIn(journal)) + Cardinality(EntriesIn(archJournal))

JournalLine(m) ==
    [kind |-> "entry", time |-> m.created, gate |-> Gate_as_str(m.gate),
     content |-> m.content]

JournalHeader(d) == [kind |-> "header", time |-> d, gate |-> None, content |-> None]

Payload(m) ==
    [memory_id |-> m.id, content |-> m.content, person |-> m.person,
     project |-> m.project]

unwrap_or_empty(o) == IF o = None THEN "" ELSE o

NodeOf(m) ==
    [gate |-> Gate_as_str(m.gate), person |-> unwrap_or_empty(m.person),
     project |-> unwrap_or_empty(m.project),
     preview |-> truncate(m.content, PreviewMax)]

Step(name, ok) == [s |-> name, ok |-> ok]

\* a store call is made: its outcome is logged, a failure is counted
Log(p, name, ok) ==
    /\ ~ok => faults < MaxFaults
    /\ faults' = IF ok THEN faults ELSE faults + 1
    /\ steps' = [steps EXCEPT ![p] = Append(@, Step(name, ok))]

(***************************************************************************)
(* tools/remember.rs: do_remember                                          *)
(***************************************************************************)
ReturnLen == 80

\* the Result do_remember hands to its caller o: the tool wrapper, or the
\* loop of do_auto_extract, which counts the Ok messages and goes on
RememberReturns(p, o, r) ==
    /\ rem' = [rem EXCEPT ![p] = r]
    /\ IF o = "remember" \/ r = "Panic"
       THEN /\ pc' = [pc EXCEPT ![p] = "done"]
            /\ res' = [res EXCEPT ![p] = r]
            /\ saved' = saved
       ELSE /\ pc' = [pc EXCEPT ![p] = "ae_loop"]
            /\ res' = res
            /\ saved' = [saved EXCEPT ![p] = IF r = "Remembered" THEN @ + 1 ELSE @]

\* lines 16-39: parse the gate, allocate the id, build the Memory
RememberBegin(p, o, e, r) ==
    LET g == Gate_from_str(e.gate) IN
    /\ pre' = [pre EXCEPT ![p] = {Snapshot}]
    /\ steps' = [steps EXCEPT ![p] = <<>>]
    /\ arg' = [arg EXCEPT ![p] = [NoArg EXCEPT !.gate = e.gate]]
    /\ IF g = None
       THEN /\ mem' = [mem EXCEPT ![p] = NoMem]
            /\ RememberReturns(p, o, "InvalidGate")
       ELSE /\ mem' = [mem EXCEPT ![p] =
                          [id |-> NewId(now, r), created |-> now, gate |-> g,
                           person |-> e.person, project |-> e.project,
                           confidence |-> InitialConfidence,
                           last_accessed |-> now, access_count |-> 1,
                           decay_class |-> DecayClass_from_gate(g),
                           content |-> e.content]]
            /\ pc' = [pc EXCEPT ![p] = "r_journal"]
            /\ rem' = [rem EXCEPT ![p] = None]
            /\ UNCHANGED <<res, saved>>

Entry(c, g, pe, pr) == [content |-> c, gate |-> g, person |-> pe, project |-> pr]

\* the entries a caller may pass: two gates in two spellings and an unknown
\* one, a short content and one with a character across byte 80, with and
\* without a person tag, sharing a project tag
Entries ==
    {Entry("note", "relational", "alex", "kit"),
     Entry("wide", "BEHAVIORAL", None, "kit"),
     Entry("note", "bogus", None, None)}

\* the entries with every spelling of a gate: lower, upper and mixed case,
\* an unknown word, a name with a trailing blank, the empty string
GateEntries ==
    Entries \cup
    {Entry("note", "Epistemic", None, "kit"),
     Entry("note", "pRoMiSsOrY", None, None),
     Entry("note", "relational ", None, None),
     Entry("note", "", None, None)}

\* do_remember is called by the tool wrapper with one of entries
RememberWith(p, entries) ==
    /\ pc[p] = "idle"
    /\ JournalEntryCount < MaxJournal
    /\ \E e \in entries, r \in RandChars :
          /\ op' = [op EXCEPT ![p] = "remember"]
          /\ RememberBegin(p, "remember", e, r)
    /\ pair' = {}
    /\ UNCHANGED <<faults, now, cs, lx, shadows, conn, lock, queue, out>>
    /\ UNCHANGED consolidated

\* the remember tool is called
Remember(p) == RememberWith(p, Entries)

\* the remember tool is called with any spelling of the gate
RememberAny(p) == RememberWith(p, GateEntries)

\* the call that follows the journal append when it succeeded
AfterJournal == "r_long_term"

\* the long-term write is followed by the shadow stores: the index is skipped
AfterLongTermShadowsFirst == "r_embed"

\* the call that follows the long-term write when it succeeded
AfterLongTerm == "r_index"

\* markdown::write_journal_entry: the header when the file is new, the entry
write_journal_entry(m, outcome) ==
    LET d == Date(m.created)
        f == JournalFile(d)
        h == IF f = <<>> THEN <<JournalHeader(d)>> ELSE <<>>
    IN  IF outcome = "ok"
        THEN Put(journal, d, f \o h \o <<JournalLine(m)>>)
        ELSE journal

\* 1. write to today's journal; an I/O error is returned
RememberJournal(p) ==
    /\ pc[p] = "r_journal"
    /\ \E outcome \in {"ok", "fail"} :
          /\ journal' = write_journal_entry(mem[p], outcome)
          /\ Log(p, "journal", outcome = "ok")
          /\ IF outcome = "ok"
             THEN /\ pc' = [pc EXCEPT ![p] = AfterJournal]
                  /\ UNCHANGED <<rem, res, saved>>
             ELSE RememberReturns(p, op[p], "CanonicalIOError")
    /\ UNCHANGED <<now, longTerm, archive, lx, shadows, conn, lock, op, mem,
                   arg, queue, out, pre, pair>>
    /\ UNCHANGED consolidated

\* markdown::write_long_term: the frontmatter and the content, overwriting
write_long_term(m) ==
    Put(longTerm, LongTermPath(m), [front |-> to_yaml(m), body |-> m.content])

\* 2. write the long-term file; an I/O error is returned
RememberLongTerm(p) ==
    /\ pc[p] = "r_long_term"
    /\ \E ok \in BOOLEAN :
          /\ longTerm' = IF ok THEN write_long_term(mem[p]) ELSE longTerm
          /\ Log(p, "long_term", ok)
          /\ IF ok
             THEN /\ pc' = [pc EXCEPT ![p] = AfterLongTerm]
                  /\ UNCHANGED <<rem, res, saved>>
             ELSE RememberReturns(p, op[p], "CanonicalIOError")
    /\ UNCHANGED <<now, journal, archive, lx, shadows, conn, lock, op, mem,
                   arg, queue, out, pre, pair>>
    /\ UNCHANGED consolidated

\* SqliteStore::index_memory: INSERT OR REPLACE by id
index_memory(m) == Put(lx, m.id, RowOf(m))

AfterEmbed == IF graph THEN "r_node" ELSE "r_format"

AfterIndex == IF vectors THEN "r_embed" ELSE AfterEmbed

\* the error of the index is logged and the call goes on, as for the shadows
IndexFailedLogged(p) ==
    /\ pc' = [pc EXCEPT ![p] = AfterIndex]
    /\ lock' = p
    /\ UNCHANGED <<rem, res, saved>>

\* the error is returned and the guard is kept
IndexFailedHeld(p) ==
    /\ RememberReturns(p, op[p], "LexicalError")
    /\ lock' = p

\* store.db.index_memory(&memory)?: the error is returned, the guard dropped
IndexFailed(p) ==
    /\ RememberReturns(p, op[p], "LexicalError")
    /\ lock' = None

\* 3. take the store lock and index the memory; an error is returned and
\* the guard is dropped
RememberIndex(p) ==
    /\ pc[p] = "r_index"
    /\ lock = None
    /\ \E ok \in BOOLEAN :
          /\ lx' = IF ok THEN index_memory(mem[p]) ELSE lx
          /\ Log(p, "index", ok)
          /\ IF ok
             THEN /\ pc' = [pc EXCEPT ![p] = AfterIndex]
                  /\ lock' = p
                  /\ UNCHANGED <<rem, res, saved>>
             ELSE IndexFailed(p)
    /\ UNCHANGED <<now, cs, shadows, conn, op, mem, arg, queue, out, pre, pair>>
    /\ UNCHANGED consolidated

\* EmbeddingStore::embed_and_store: one more point, under a fresh uuid
embed_and_store(m) ==
    IF Payload(m) \in DOMAIN vx
    THEN [vx EXCEPT ![Payload(m)] = @ + 1]
    ELSE Put(vx, Payload(m), 1)

\* the vector store, when connected; its error is logged
RememberEmbed(p) ==
    /\ pc[p] = "r_embed"
    /\ \E ok \in BOOLEAN :
          /\ vx' = IF ok THEN embed_and_store(mem[p]) ELSE vx
          /\ Log(p, "embed", ok)
    /\ pc' = [pc EXCEPT ![p] = AfterEmbed]
    /\ UNCHANGED <<now, cs, lx, rxNodes, rxEdges, conn, lock, op, mem, arg,
                   queue, saved, rem, res, out, pre, pair>>
    /\ UNCHANGED consolidated

\* GraphStore::upsert_memory_node: MERGE by id, SET the properties
upsert_memory_node(m) == Put(rxNodes, m.id, NodeOf(m))

\* the graph store, when connected: the node; its error is logged
RememberNode(p) ==
    /\ pc[p] = "r_node"
    /\ \E ok \in BOOLEAN :
          /\ rxNodes' = IF ok THEN upsert_memory_node(mem[p]) ELSE rxNodes
          /\ Log(p, "node", ok)
    /\ pc' = [pc EXCEPT ![p] = "r_link"]
    /\ UNCHANGED <<now, cs, lx, vx, rxEdges, conn, lock, op, mem, arg, queue,
                   saved, rem, res, out, pre, pair>>
    /\ UNCHANGED consolidated

\* the relation type of auto_link
RELATED_TO == <<"R", "E", "L", "A", "T", "E", "D", "_", "T", "O">>

\* MATCH (a {id}), (b {<tag>: value}) WHERE a <> b MERGE (a)-[:RELATED_TO]->(b)
TagLinks(id, tag, value) ==
    IF value = None \/ value = "" \/ id \notin DOMAIN rxNodes
    THEN {}
    ELSE {<<id, RELATED_TO, b>> :
             b \in {n \in DOMAIN rxNodes : n # id /\ rxNodes[n][tag] = value}}

\* GraphStore::auto_link: the person query, then the project query; the
\* first failing query ends it
auto_link(m, outcome) ==
    CASE outcome = "ok" ->
            rxEdges \cup TagLinks(m.id, "person", m.person)
                    \cup TagLinks(m.id, "project", m.project)
      [] outcome = "fail_project" ->
            rxEdges \cup TagLinks(m.id, "person", m.person)
      [] OTHER -> rxEdges

HasTag(v) == v # None /\ v # ""

\* the graph store: the links; its error is logged
RememberLink(p) ==
    /\ pc[p] = "r_link"
    /\ \E outcome \in {"ok", "fail_person", "fail_project"} :
          /\ outcome = "fail_person" => HasTag(mem[p].person)
          /\ outcome = "fail_project" => HasTag(mem[p].project)
          /\ rxEdges' = auto_link(mem[p], outcome)
          /\ Log(p, "link", outcome = "ok")
    /\ pc' = [pc EXCEPT ![p] = "r_format"]
    /\ UNCHANGED <<now, cs, lx, vx, rxNodes, conn, lock, op, mem, arg, queue,
                   saved, rem, res, out, pre, pair>>
    /\ UNCHANGED consolidated

\* the characters of a relation name: a letter, an upper-case letter, the
\* underscore, the hyphen and a letter outside ASCII
RelationChars == {"a", "Z", "_", "-", "e_acute"}

Relations == UNION {[1..n -> RelationChars] : n \in 0..MaxRelation}

\* graph.rs 70-73: relation.chars().filter(is_alphanumeric or '_')
safe_relation(relation) ==
    SelectSeq(relation, LAMBDA c : IsAlphanumeric(c) \/ c = "_")

\* MATCH (a {id: from}), (b {id: to}) MERGE (a)-[r:<type>]->(b)
merge_edge(from, type, to) ==
    IF from \in DOMAIN rxNodes /\ to \in DOMAIN rxNodes
    THEN rxEdges \cup {<<from, type, to>>}
    ELSE rxEdges

\* GraphStore::add_edge: the relation is sanitized; an empty name is
\* refused before any query, otherwise the query is run with the name
\* interpolated as the relation type
AddEdge(p) ==
    /\ pc[p] = "idle"
    /\ graph
    /\ Cardinality({e \in rxEdges : e[2] # RELATED_TO}) < MaxEdges
    /\ \E from \in AllIds, to \in AllIds, relation \in Relations :
          LET safe == safe_relation(relation) IN
          /\ arg' = [arg EXCEPT ![p] =
                        [NoArg EXCEPT !.id = from, !.to = to, !.relation = relation]]
          /\ IF safe = <<>>
             THEN /\ res' = [res EXCEPT ![p] = "InvalidRelation"]
                  /\ steps' = [steps EXCEPT ![p] = <<>>]
                  /\ out' = [out EXCEPT ![p] = NoOut]
                  /\ UNCHANGED <<rxEdges, faults>>
             ELSE \E ok \in BOOLEAN :
                     /\ faults' = IF ok THEN faults ELSE faults + 1
                     /\ ~ok => faults < MaxFaults
                     /\ steps' = [steps EXCEPT ![p] = <<Step("add_edge", ok)>>]
                     /\ out' = [out EXCEPT ![p] = [NoOut EXCEPT !.cypher = safe]]
                     /\ rxEdges' = IF ok THEN merge_edge(from, safe, to) ELSE rxEdges
                     /\ res' = [res EXCEPT ![p] =
                                   IF ok THEN "EdgeAdded" ELSE "RelationError"]
    /\ op' = [op EXCEPT ![p] = "add_edge"]
    /\ pc' = [pc EXCEPT ![p] = "done"]
    /\ pre' = [pre EXCEPT ![p] = {Snapshot}]
    /\ UNCHANGED <<now, cs, lx, vx, rxNodes, conn, lock, mem, queue, saved,
                   rem, pair>>
    /\ UNCHANGED consolidated

\* lines 75-80: &content[..80] panics off a character boundary
FormatRemembered(content) ==
    IF ByteLen(content) > ReturnLen /\ ~IsCharBoundary(content, ReturnLen)
    THEN "Panic"
    ELSE "Remembered"

\* the message is built and the guard dropped
RememberFormat(p) ==
    /\ pc[p] = "r_format"
    /\ RememberReturns(p, op[p], FormatRemembered(mem[p].content))
    /\ lock' = None
    /\ UNCHANGED <<faults, now, cs, lx, shadows, conn, op, mem, arg, queue, steps,
                   out, pre, pair>>
    /\ UNCHANGED consolidated


\* what extract::extract_memories may hand back: at most MaxExtract entries
(***************************************************************************)
(* extract.rs: the calls to the summarizer                                 *)
(***************************************************************************)
\* what POST /v1/messages can answer: a 2xx response with a message body, a
\* non-2xx response with a JSON error body, or a non-2xx response whose
\* body is not JSON; without a credential it is never 2xx
Replies(key) ==
    IF key = "" THEN {"error_json", "error_text"}
    ELSE {"ok", "error_json", "error_text"}

Ok(v) == [ok |-> TRUE, v |-> v]

Err == [ok |-> FALSE, v |-> None]

\* the characters of a message text: the brackets, and "o" for one JSON
\* object of an ExtractedMemory with the comma it needs
TextChars == {"[", "]", "o"}

Texts == UNION {[1..n -> TextChars] : n \in 0..MaxText}

\* serde_json::from_str::<Vec<ExtractedMemory>>: the number of objects of
\* an array, or an error
from_str(text) ==
    IF /\ Len(text) >= 2
       /\ text[1] = "[" /\ text[Len(text)] = "]"
       /\ \A i \in 2..(Len(text) - 1) : text[i] = "o"
    THEN Ok(Len(text) - 2)
    ELSE Err

\* text.find(c): the first index of c, or 0 for None
find(text, c) ==
    IF \E i \in DOMAIN text : text[i] = c
    THEN CHOOSE i \in DOMAIN text :
            text[i] = c /\ \A j \in 1..(i - 1) : text[j] # c
    ELSE 0

\* text.rfind(c): the last index of c, or 0 for None
rfind(text, c) ==
    IF \E i \in DOMAIN text : text[i] = c
    THEN CHOOSE i \in DOMAIN text :
            text[i] = c /\ \A j \in (i + 1)..Len(text) : text[j] # c
    ELSE 0

Panicked == [ok |-> FALSE, v |-> "Panic"]

\* extract.rs 56-66: the whole text, else &text[start..=end] between the
\* first '[' and the last ']', else the empty list; the slice panics when
\* start > end + 1
parse_extracted(text) ==
    LET start == find(text, "[")
        end == rfind(text, "]")
    IN  IF from_str(text).ok THEN from_str(text)
        ELSE IF start = 0 \/ end = 0 THEN Ok(0)
        ELSE IF start > end + 1 THEN Panicked
        ELSE IF from_str(SubSeq(text, start, end)).ok
             THEN from_str(SubSeq(text, start, end))
             ELSE Ok(0)

\* extract_memories: send()?, then the status is checked, then the body is
\* parsed
extract_memories(reply, text) ==
    IF reply = "ok" THEN parse_extracted(text) ELSE Err

\* the status of the response is checked as in extract_memories
consolidate_entries_checked(reply, entries) ==
    IF reply = "ok" THEN Ok(<<"digest", entries>>) ELSE Err

\* consolidate_entries: send()?, then resp.json()? and the text of the first
\* content block, or the placeholder when the body has none
consolidate_entries(reply, entries) ==
    CASE reply = "ok" -> Ok(<<"digest", entries>>)
      [] reply = "error_json" -> Ok(<<"(consolidation produced no output)">>)
      [] OTHER -> Err

\* regenerate_identity: as consolidate_entries, with its own placeholder
regenerate_identity(reply, memories) ==
    CASE reply = "ok" -> Ok(<<"identity", memories>>)
      [] reply = "error_json" -> Ok(<<"(identity generation produced no output)">>)
      [] OTHER -> Err

(***************************************************************************)
(* tools/auto_extract.rs: do_auto_extract                                  *)
(***************************************************************************)
\* the texts of a well-formed answer: the empty array and one object
BriefTexts == {<<"[", "]">>, <<"[", "o", "]">>}

\* do_auto_extract is called and the summarizer answers with one of texts,
\* holding at most max entries out of found: the extractor fails, aborts, finds nothing,
\* or returns the entries to save
AutoExtractWith(p, texts, max, found) ==
    /\ pc[p] = "idle"
    /\ \E reply \in Replies(apiKey), text \in texts :
          LET memories == extract_memories(reply, text)
              n == IF memories.ok THEN memories.v ELSE 0
          IN  /\ n <= max
              /\ JournalEntryCount + n <= MaxJournal
              /\ \E entries \in [1..n -> found] :
                    /\ queue' = [queue EXCEPT ![p] = entries]
                    /\ out' = [out EXCEPT ![p] =
                                  [NoOut EXCEPT
                                     !.replies = <<[call |-> "extract",
                                                    reply |-> reply]>>,
                                     !.text = IF reply = "ok" THEN text ELSE <<>>,
                                     !.n = n, !.base = DOMAIN lx,
                                     !.todo = entries]]
              /\ pc' = [pc EXCEPT ![p] = IF n > 0 THEN "ae_loop" ELSE "done"]
              /\ res' = [res EXCEPT ![p] =
                            IF memories.ok
                            THEN IF n = 0 THEN "NothingToKeep" ELSE None
                            ELSE IF memories.v = "Panic" THEN "Panic"
                                 ELSE "UpstreamError"]
    /\ op' = [op EXCEPT ![p] = "auto_extract"]
    /\ pre' = [pre EXCEPT ![p] = {Snapshot}]
    /\ pair' = {}
    /\ UNCHANGED <<faults, now, cs, lx, shadows, conn, lock, mem, arg, saved,
                   steps, rem>>
    /\ UNCHANGED consolidated

\* the auto_extract tool is called and the summarizer answers well-formed
AutoExtract(p) == AutoExtractWith(p, BriefTexts, MaxExtract, Entries)

\* the auto_extract tool is called and the summarizer answers any text
AutoExtractAny(p) == AutoExtractWith(p, Texts, MaxBatch, GateEntries)

\* for mem in &memories: do_remember is called for the next entry; after the
\* last one the collected messages are returned
AutoExtractNext(p) ==
    /\ pc[p] = "ae_loop"
    /\ IF queue[p] = <<>>
       THEN /\ pc' = [pc EXCEPT ![p] = "done"]
            /\ res' = [res EXCEPT ![p] = "AutoExtracted"]
            /\ UNCHANGED <<queue, mem, steps, rem, saved, pre, arg, out>>
       ELSE /\ \E r \in RandChars :
                  RememberBegin(p, "auto_extract", Head(queue[p]), r)
            /\ queue' = [queue EXCEPT ![p] = Tail(@)]
            /\ out' = [out EXCEPT ![p].trace = Append(@, Head(queue[p]))]
    /\ UNCHANGED <<faults, now, cs, lx, shadows, conn, lock, op, pair>>
    /\ UNCHANGED consolidated

(***************************************************************************)
(* tools/forget.rs: do_forget                                              *)
(***************************************************************************)
\* the forget tool is called
Forget(p) ==
    /\ pc[p] = "idle"
    /\ \E id \in AllIds, reason \in Reasons :
          /\ arg' = [arg EXCEPT ![p] = [NoArg EXCEPT !.id = id, !.reason = reason]]
          /\ pair' = {s \in pair : s.id = id}
    /\ op' = [op EXCEPT ![p] = "forget"]
    /\ pc' = [pc EXCEPT ![p] = "f_delete"]
    /\ pre' = [pre EXCEPT ![p] = {Snapshot}]
    /\ steps' = [steps EXCEPT ![p] = <<>>]
    /\ UNCHANGED <<faults, now, cs, lx, shadows, conn, lock, mem, queue, saved, rem,
                   res, out>>
    /\ UNCHANGED consolidated

\* SqliteStore::delete_memory: DELETE FROM memories WHERE id = ?1
delete_memory(id) == Drop(lx, {id})

\* the archive file is written before the row is looked at
ForgetAbsentArchived(p, ok) ==
    /\ res' = [res EXCEPT ![p] = IF ok THEN "NotFound" ELSE "LexicalError"]
    /\ pc' = [pc EXCEPT ![p] = "done"]
    /\ archive' = Put(archive, arg[p].id,
                      [archived |-> to_rfc3339(now), reason |-> arg[p].reason,
                       original_gate |-> None, content |-> None])
    /\ UNCHANGED <<mem, lx, lock, journal, longTerm>>

\* delete_memory answered None or an error: the call ends with the
\* not-found message or the error, before anything is written
ForgetAbsent(p, ok) ==
    /\ res' = [res EXCEPT ![p] = IF ok THEN "NotFound" ELSE "LexicalError"]
    /\ pc' = [pc EXCEPT ![p] = "done"]
    /\ UNCHANGED <<mem, lx, lock, cs>>

\* 1. take the store lock, read the row and delete it; an absent row ends
\* the call with the not-found message, an error is returned
ForgetDelete(p) ==
    /\ pc[p] = "f_delete"
    /\ lock = None
    /\ \E outcome \in {"ok", "fail_get", "fail_delete"} :
          /\ outcome = "fail_delete" => arg[p].id \in DOMAIN lx
          /\ Log(p, "delete", outcome = "ok")
          /\ IF outcome = "ok" /\ arg[p].id \in DOMAIN lx
             THEN /\ mem' = [mem EXCEPT ![p] = MemoryOfRow(lx[arg[p].id])]
                  /\ lx' = delete_memory(arg[p].id)
                  /\ lock' = p
                  /\ pc' = [pc EXCEPT ![p] = "f_archive"]
                  /\ res' = res
                  /\ UNCHANGED cs
             ELSE ForgetAbsent(p, outcome = "ok")
    /\ UNCHANGED <<now, shadows, conn, op, arg, queue, saved, rem, out,
                   pre, pair>>
    /\ UNCHANGED consolidated

ArchiveFile(m, reason) ==
    [archived |-> to_rfc3339(now), reason |-> reason,
     original_gate |-> Gate_as_str(m.gate), content |-> m.content]

AfterPoint == IF graph THEN "f_graph" ELSE "f_format"

AfterArchive == IF vectors THEN "f_vectors" ELSE AfterPoint

\* 2. create archive/ and write archive/<id>.md; an I/O error is returned
ForgetArchive(p) ==
    /\ pc[p] = "f_archive"
    /\ \E outcome \in {"ok", "fail_dir", "fail_write"} :
          /\ Log(p, "archive", outcome = "ok")
          /\ IF outcome = "ok"
             THEN /\ archive' = Put(archive, arg[p].id,
                                    ArchiveFile(mem[p], arg[p].reason))
                  /\ pc' = [pc EXCEPT ![p] = AfterArchive]
                  /\ UNCHANGED <<res, lock>>
             ELSE /\ archive' = archive
                  /\ res' = [res EXCEPT ![p] = "CanonicalIOError"]
                  /\ pc' = [pc EXCEPT ![p] = "done"]
                  /\ lock' = None
    /\ UNCHANGED <<now, journal, longTerm, lx, shadows, conn, op, mem, arg,
                   queue, saved, rem, out, pre, pair>>
    /\ UNCHANGED consolidated

\* the points are selected by point id, which is a uuid and never a memory id
delete_point_by_point_id(id) == vx

\* EmbeddingStore::delete_point: every point whose payload memory_id matches
delete_point(id) == Drop(vx, {q \in DOMAIN vx : q.memory_id = id})

\* 3. the vector store, when connected; its error is logged
ForgetVectors(p) ==
    /\ pc[p] = "f_vectors"
    /\ \E ok \in BOOLEAN :
          /\ vx' = IF ok THEN delete_point(arg[p].id) ELSE vx
          /\ Log(p, "delete_point", ok)
    /\ pc' = [pc EXCEPT ![p] = AfterPoint]
    /\ UNCHANGED <<now, cs, lx, rxNodes, rxEdges, conn, lock, op, mem, arg,
                   queue, saved, rem, res, out, pre, pair>>
    /\ UNCHANGED consolidated

\* GraphStore::delete_node: MATCH (m {id}) DETACH DELETE m
delete_node_nodes(id) == Drop(rxNodes, {id})

delete_node_edges(id) == {e \in rxEdges : e[1] # id /\ e[3] # id}

\* 4. the graph store, when connected; its error is logged
ForgetGraph(p) ==
    /\ pc[p] = "f_graph"
    /\ \E ok \in BOOLEAN :
          /\ rxNodes' = IF ok THEN delete_node_nodes(arg[p].id) ELSE rxNodes
          /\ rxEdges' = IF ok THEN delete_node_edges(arg[p].id) ELSE rxEdges
          /\ Log(p, "delete_node", ok)
    /\ pc' = [pc EXCEPT ![p] = "f_format"]
    /\ UNCHANGED <<now, cs, lx, vx, conn, lock, op, mem, arg, queue, saved,
                   rem, res, out, pre, pair>>
    /\ UNCHANGED consolidated

\* the message is built and the guard dropped
ForgetFormat(p) ==
    /\ pc[p] = "f_format"
    /\ res' = [res EXCEPT ![p] = "Forgotten"]
    /\ pc' = [pc EXCEPT ![p] = "done"]
    /\ lock' = None
    /\ UNCHANGED <<faults, now, cs, lx, shadows, conn, op, mem, arg, queue, saved,
                   steps, rem, out, pre, pair>>
    /\ UNCHANGED consolidated

(***************************************************************************)
(* tools/recall.rs: do_recall                                              *)
(***************************************************************************)
FtsLimit == 5

VectorLimit == 5

RelatedLimit == 10

SparseResults == 3

SeedCount == 2

GrepCount == 3

\* queries a caller may pass; "zebra" occurs in no memory
Queries == {"alex", "zebra"}

Min(a, b) == IF a < b THEN a ELSE b

\* the ways a backend may pick and order at most k of the rows in S
TopK(S, k) ==
    {s \in [1..Min(k, Cardinality(S)) -> S] :
        \A i, j \in DOMAIN s : i # j => s[i] # s[j]}

\* memories_fts MATCH ?1 over the columns content, person, project
FtsMatch(q, row) == q \in {row.content, row.person, row.project} \ {None}

\* SqliteStore::search_fts: an error, or at most limit matching memories
search_fts(q, limit) ==
    {[ok |-> FALSE, hits |-> <<>>]} \cup
    {[ok |-> TRUE, hits |-> h] :
        h \in TopK({id \in DOMAIN lx : FtsMatch(q, lx[id])}, limit)}

\* the UPDATE lowers the confidence of the row as well
touch_memory_decayed(row) ==
    [row EXCEPT !.access_count = @ + 1, !.last_accessed = to_rfc3339(now),
                !.confidence = 0]

\* SqliteStore::touch_memory
touch_memory(row) ==
    [row EXCEPT !.access_count = @ + 1, !.last_accessed = to_rfc3339(now)]

VxPoints == UNION {{<<q, k>> : k \in 1..vx[q]} : q \in DOMAIN vx}

\* EmbeddingStore::search_similar: an error, or the payload memory_id of the
\* limit nearest points
search_similar(limit) ==
    {[ok |-> FALSE, hits |-> <<>>]} \cup
    {[ok |-> TRUE, hits |-> [i \in DOMAIN s |-> s[i][1].memory_id]] :
        s \in TopK(VxPoints, limit)}

\* the other end of edge e seen from node a
OtherEnd(e, a) == IF e[1] = a THEN e[3] ELSE e[1]

Incident(a) == {e \in rxEdges : e[1] = a \/ e[3] = a}

\* MATCH (a {id})-[r*1..2]-(b): the paths of one or two distinct edges from
\* a, each given by its edges and its end b
RelatedRows(a) ==
    IF a \notin DOMAIN rxNodes THEN {}
    ELSE {[path |-> <<e>>, b |-> OtherEnd(e, a)] : e \in Incident(a)} \cup
         UNION {{[path |-> <<e, f>>, b |-> OtherEnd(f, OtherEnd(e, a))] :
                    f \in Incident(OtherEnd(e, a)) \ {e}} : e \in Incident(a)}

\* the sets of ids the first RelatedLimit rows can carry
RelatedIds(a) ==
    LET rows == RelatedRows(a)
        ends == {r.b : r \in rows}
    IN  IF Cardinality(rows) <= RelatedLimit THEN {ends}
        ELSE {S \in SUBSET ends :
                 Cardinality({r \in rows : r.b \in S}) >= RelatedLimit}

\* GraphStore::find_related: an error, or the related ids in row order
find_related(a) ==
    {[seed |-> a, ok |-> FALSE, hits |-> <<>>]} \cup
    UNION {{[seed |-> a, ok |-> TRUE, hits |-> h] : h \in TopK(S, Cardinality(S))} :
              S \in RelatedIds(a)}

\* the words a grep can find in a file
JournalWords(d) ==
    UNION {{journal[d][i].gate, journal[d][i].content} : i \in DOMAIN journal[d]}

LongTermWords(k) ==
    {longTerm[k].front.gate, longTerm[k].front.person,
     longTerm[k].front.project, longTerm[k].front.decay_class,
     longTerm[k].body}

ArchiveWords(id) ==
    {archive[id].reason, archive[id].original_gate, archive[id].content}

Contains(words, q) == q = "" \/ ToLower(q) \in {ToLower(w) : w \in words \ {None}}

\* the words of a journal moved to archive/journal/
ArchivedJournalWords(d) ==
    UNION {{archJournal[d][i].gate, archJournal[d][i].content} :
              i \in DOMAIN archJournal[d]}

\* the text of a digest or of an identity card is the summarizer's: it is
\* matched by the empty query only
SummaryWords(text) == {}

\* markdown::search_all: the .md files under the root that contain the query
search_all(q) ==
    {[dir |-> "journal", key |-> <<d>>] :
        d \in {x \in DOMAIN journal : Contains(JournalWords(x), q)}} \cup
    {[dir |-> "long-term", key |-> k] :
        k \in {x \in DOMAIN longTerm : Contains(LongTermWords(x), q)}} \cup
    {[dir |-> "archive", key |-> id] :
        id \in {x \in DOMAIN archive : Contains(ArchiveWords(x), q)}} \cup
    {[dir |-> "archive/journal", key |-> <<d>>] :
        d \in {x \in DOMAIN archJournal : Contains(ArchivedJournalWords(x), q)}} \cup
    {[dir |-> "digests", key |-> <<w>>] :
        w \in {x \in DOMAIN digests : Contains(SummaryWords(digests[x].text), q)}} \cup
    {[dir |-> "archive/identity", key |-> <<d>>] :
        d \in {x \in DOMAIN archIdentity : Contains(SummaryWords(archIdentity[x]), q)}} \cup
    {[dir |-> "", key |-> <<"identity.md">>] :
        x \in {y \in {identity} : y # None /\ Contains(SummaryWords(y), q)}}

Line(src, id) == [src |-> src, id |-> id]

\* if seen_ids.insert(id) { results.push(line) } for each hit in order
RECURSIVE PushNew(_, _, _)
PushNew(acc, hits, src) ==
    IF hits = <<>> THEN acc
    ELSE IF Head(hits) \in acc.seen
         THEN PushNew(acc, Tail(hits), src)
         ELSE PushNew([lines |-> Append(acc.lines, Line(src, Head(hits))),
                       seen |-> acc.seen \cup {Head(hits)}],
                      Tail(hits), src)

\* the vector search keeps a seen set of its own
VectorStageOwnSeen(acc, va) ==
    LET r == PushNew([lines |-> acc.lines, seen |-> {}], va.hits, "vx")
    IN  [lines |-> r.lines, seen |-> acc.seen \cup r.seen]

Event(e, id) == [e |-> e, id |-> id]

\* the line of the hit is pushed before the row is touched
HitEventsPushFirst(id) == <<Event("push", id), Event("touch", id)>>

\* a newly seen full-text hit: touch_memory is called, then the line is pushed
HitEvents(id) == <<Event("touch", id), Event("push", id)>>

\* the calls and pushes of the loop over the full-text hits, in order
RECURSIVE LexicalTrace(_, _)
LexicalTrace(seen, hits) ==
    IF hits = <<>> THEN <<>>
    ELSE IF Head(hits) \in seen
         THEN LexicalTrace(seen, Tail(hits))
         ELSE HitEvents(Head(hits)) \o
              LexicalTrace(seen \cup {Head(hits)}, Tail(hits))

\* 1. the hits of the full-text search; its error is logged
LexicalStage(la) == PushNew([lines |-> <<>>, seen |-> {}], la.hits, "lx")

\* the error arm of the vector search starts the results over
VectorStageReset(acc, va) ==
    IF va.ok THEN PushNew(acc, va.hits, "vx") ELSE [lines |-> <<>>, seen |-> {}]

\* 2. the hits of the vector search; its error is logged
VectorStage(acc, va) == PushNew(acc, va.hits, "vx")

\* the traversal loop over the answers of find_related, seed by seed
RECURSIVE PushRelated(_, _)
PushRelated(acc, answers) ==
    IF answers = <<>> THEN acc
    ELSE PushRelated(PushNew(acc, Head(answers).hits, "rx"), Tail(answers))

\* the answers the graph may give for the seeds, in seed order
RelatedAnswers(seeds) ==
    {a \in [DOMAIN seeds -> UNION {find_related(seeds[i]) : i \in DOMAIN seeds}] :
        \A i \in DOMAIN seeds : a[i].seed = seeds[i]}

\* 3. the traversal runs for sparse results on a connected graph, from the
\* first SeedCount ids of the seen set in its iteration order
Seeds(acc) ==
    IF Len(acc.lines) < SparseResults /\ graph
    THEN TopK(acc.seen, SeedCount)
    ELSE {<<>>}

\* every file of the walk is kept
GreppedAll(acc, q) == IF acc.lines = <<>> THEN {search_all(q)} ELSE {{}}

\* 4. the fallback runs when nothing was found: the first GrepCount files
\* of the walk, whichever they are
Grepped(acc, q) ==
    IF acc.lines = <<>>
    THEN LET found == search_all(q) IN
         {F \in SUBSET found : Cardinality(F) = Min(GrepCount, Cardinality(found))}
    ELSE {{}}

FileLines(files) == [i \in 1..Cardinality(files) |-> Line("file", <<>>)]

FormatRecall(lines) == IF lines = <<>> THEN "NoMemories" ELSE "Found"

\* the UPDATE has lost its WHERE clause
TouchedEveryRow(T) ==
    [id \in DOMAIN lx |-> IF T # {} THEN touch_memory(lx[id]) ELSE lx[id]]

\* the rows of LX after the hits in T have been touched
Touched(T) ==
    [id \in DOMAIN lx |-> IF id \in T THEN touch_memory(lx[id]) ELSE lx[id]]

Range(s) == {s[i] : i \in DOMAIN s}

\* the recall tool is called and served under the store lock
RecallWith(p, queries) ==
    /\ pc[p] = "idle"
    /\ lock = None
    /\ \E q \in queries :
       \E la \in search_fts(q, FtsLimit) :
       \E T \in SUBSET Range(la.hits) :
       \E va \in IF vectors THEN search_similar(VectorLimit)
                            ELSE {[ok |-> FALSE, hits |-> <<>>]} :
          LET acc1 == LexicalStage(la)
              acc2 == VectorStage(acc1, va)
          IN  \E seeds \in Seeds(acc2) :
              \E ra \in RelatedAnswers(seeds) :
                 LET acc3 == PushRelated(acc2, ra) IN
                 \E files \in Grepped(acc3, q) :
                    LET lines == acc3.lines \o FileLines(files) IN
                    /\ \A id \in Range(la.hits) : lx[id].access_count < MaxAccess
                    /\ lx' = Touched(T)
                    /\ arg' = [arg EXCEPT ![p] = [NoArg EXCEPT !.query = q]]
                    /\ out' = [out EXCEPT ![p] =
                                  [NoOut EXCEPT
                                     !.lines = lines, !.lx = la, !.touched = T,
                                     !.vx = va, !.rx = ra, !.files = files,
                                     !.n = Len(lines),
                                     !.trace = LexicalTrace({}, la.hits),
                                     !.at = now]]
                    /\ res' = [res EXCEPT ![p] = FormatRecall(lines)]
    /\ op' = [op EXCEPT ![p] = "recall"]
    /\ pc' = [pc EXCEPT ![p] = "done"]
    /\ pre' = [pre EXCEPT ![p] = {Snapshot}]
    /\ pair' = {}
    /\ UNCHANGED <<faults, now, cs, shadows, conn, lock, mem, queue, saved, steps, rem>>
    /\ UNCHANGED consolidated

Recall(p) == RecallWith(p, Queries)

\* the empty query is held by every file and matched by no row
FileQueries == {"", "alex"}

RecallFiles(p) == RecallWith(p, FileQueries)

(***************************************************************************)
(* tools/reflect.rs, consolidation/digest.rs, consolidation/journal.rs     *)
(***************************************************************************)
StaleDays == 14

WeekLength == 7

RecentCount == 5

\* date.format("%G-W%V")
Week(d) == d \div WeekLength

\* the members of a set of dates in ascending order
Sorted(S) ==
    CHOOSE q \in [1..Cardinality(S) -> S] :
        \A i, j \in DOMAIN q : i < j => q[i] < q[j]

\* journal::list_journal_dates
list_journal_dates == Sorted(DOMAIN journal)

\* the cutoff is today - 14 and the dates on the cutoff are taken as well
stale_journals_inclusive(today, max_age_days) ==
    {d \in DOMAIN journal : d <= today - max_age_days}

\* journal::stale_journals: the dates before the cutoff today - max_age_days
stale_journals(today, max_age_days) ==
    {d \in DOMAIN journal : d < today - max_age_days}

\* markdown::read_journal
read_journal(d) == JournalFile(d)

\* journal::recent_journals: the non-empty files of the last count dates, in
\* ascending order
recent_journals(count) ==
    LET dates == list_journal_dates
        n == Len(dates)
        last == SubSeq(dates, IF n > count THEN n - count + 1 ELSE 1, n)
    IN  SelectSeq([i \in DOMAIN last |-> read_journal(last[i])],
                  LAMBDA f : f # <<>>)

\* the identity is regenerated before the journals are consolidated
ReflectFirstIdentity == "x_recent"

\* 1. consolidate old journals into weekly digests comes first
ReflectFirst == "x_stale"

\* the reflect tool is called
Reflect(p) ==
    /\ pc[p] = "idle"
    /\ reflections < MaxReflects
    /\ reflections' = reflections + 1
    /\ op' = [op EXCEPT ![p] = "reflect"]
    /\ pc' = [pc EXCEPT ![p] = ReflectFirst]
    /\ pre' = [pre EXCEPT ![p] = {Snapshot}]
    /\ steps' = [steps EXCEPT ![p] = <<>>]
    /\ out' = [out EXCEPT ![p] = NoOut]
    /\ UNCHANGED <<faults, now, cs, lx, shadows, conn, lock, mem, arg, queue,
                   saved, rem, res, pair, apiKey, digests, archJournal,
                   identity, archIdentity>>

\* a call that does not fail a store: it is logged and costs no fault
Note(p, name, ok) ==
    /\ steps' = [steps EXCEPT ![p] = Append(@, Step(name, ok))]
    /\ faults' = faults

\* the error of consolidate_journals ends the report
AfterPipelinePropagated(r) ==
    IF r = "ConsolidationFailed" THEN "x_format" ELSE "x_recent"

\* reflect.rs 12-19: whatever consolidate_journals returned, the recent
\* journals are read next
AfterPipeline(r) == "x_recent"

\* consolidate_journals has returned r: the line of the report is pushed
\* and do_reflect goes on to the identity card
PipelineReturns(p, r, o) ==
    /\ out' = [out EXCEPT ![p] =
                  [o EXCEPT !.report = Append(@, r), !.ended = TRUE,
                            !.left = journal]]
    /\ pc' = [pc EXCEPT ![p] = AfterPipeline(r)]

\* digest.rs 13-24: the stale journals, grouped by week in key order
ReflectStale(p) ==
    /\ pc[p] = "x_stale"
    /\ \E outcome \in {"ok", "fail"} :
          LET stale == stale_journals(Date(now), StaleDays)
              o == [out[p] EXCEPT !.at = now, !.stale = stale,
                                  !.todo = Sorted({Week(d) : d \in stale})]
          IN  /\ Log(p, "stale", outcome = "ok")
              /\ IF outcome = "fail"
                 THEN PipelineReturns(p, "ConsolidationFailed", out[p])
                 ELSE IF stale = {}
                      THEN PipelineReturns(p, "NothingOld", o)
                      ELSE /\ out' = [out EXCEPT ![p] = o]
                           /\ pc' = [pc EXCEPT ![p] = "x_week"]
    /\ UNCHANGED <<now, cs, lx, shadows, conn, lock, op, mem, arg, queue,
                   saved, rem, res, pre, pair, consolidated>>

\* the journals are archived as soon as the summary is there
AfterSummaryArchive == "x_archive"

\* digest.rs 44-48: the digest file is written once the summary is there
AfterSummary == "x_digest"

\* digest.rs 28-42: the journals of the next week are read and handed to
\* the summarizer; after the last week the pipeline returns
ReflectWeek(p) ==
    /\ pc[p] = "x_week"
    /\ IF out[p].todo = <<>>
       THEN /\ PipelineReturns(p, IF out[p].written = <<>> THEN "NothingOld"
                                  ELSE "Consolidated", out[p])
            /\ UNCHANGED <<steps, faults>>
       ELSE LET week == Head(out[p].todo)
                dates == Sorted({d \in out[p].stale : Week(d) = week})
                combined == [i \in DOMAIN dates |-> read_journal(dates[i])]
            IN  \/ /\ Log(p, "read_journal", FALSE)
                   /\ PipelineReturns(p, "ConsolidationFailed", out[p])
                \/ /\ \A i \in DOMAIN combined : combined[i] = <<>>
                   /\ Note(p, "read_journal", TRUE)
                   /\ out' = [out EXCEPT ![p].todo = Tail(@)]
                   /\ pc' = pc
                \/ /\ \E i \in DOMAIN combined : combined[i] # <<>>
                   /\ \E reply \in Replies(apiKey) :
                         LET digest == consolidate_entries(reply, combined)
                             o == [out[p] EXCEPT
                                     !.replies = Append(@, [call |-> "consolidate",
                                                            week |-> week,
                                                            reply |-> reply]),
                                     !.dates = dates, !.text = digest.v]
                         IN  /\ Note(p, "consolidate", digest.ok)
                             /\ IF digest.ok
                                THEN /\ out' = [out EXCEPT ![p] = o]
                                     /\ pc' = [pc EXCEPT ![p] = AfterSummary]
                                ELSE PipelineReturns(p, "ConsolidationFailed", o)
    /\ UNCHANGED <<now, cs, lx, shadows, conn, lock, op, mem, arg, queue,
                   saved, rem, res, pre, pair, consolidated>>

\* digest.rs 45-48: digests/<week>.md is written, overwriting; the file is
\* the heading of the week and the summary of the journals of dates
ReflectDigest(p) ==
    /\ pc[p] = "x_digest"
    /\ \E outcome \in {"ok", "fail"} :
          /\ Log(p, "digest_write", outcome = "ok")
          /\ IF outcome = "ok"
             THEN /\ digests' = Put(digests, Head(out[p].todo),
                                    [week |-> Head(out[p].todo), text |-> out[p].text,
                                     dates |-> out[p].dates])
                  /\ pc' = [pc EXCEPT ![p] = "x_archive"]
                  /\ out' = out
             ELSE /\ digests' = digests
                  /\ PipelineReturns(p, "ConsolidationFailed", out[p])
    /\ UNCHANGED <<now, cs, lx, shadows, conn, lock, op, mem, arg, queue,
                   saved, rem, res, pre, pair, apiKey, archJournal, identity,
                   archIdentity, reflections>>

\* the journal is copied to the archive and stays in journal/
archive_journal_copied(d) ==
    [journal |-> journal,
     archJournal |-> IF d \in DOMAIN journal THEN Put(archJournal, d, journal[d])
                     ELSE archJournal]

\* journal::archive_journal: if src.exists() { rename(src, dst) }
archive_journal(d) ==
    IF d \in DOMAIN journal
    THEN [journal |-> Drop(journal, {d}),
          archJournal |-> Put(archJournal, d, journal[d])]
    ELSE [journal |-> journal, archJournal |-> archJournal]

\* journal::archive_journal and digest.rs 51-55: the next journal of the
\* week is moved to archive/journal/; after the last one the week is done
ReflectArchive(p) ==
    /\ pc[p] = "x_archive"
    /\ IF out[p].dates = <<>>
       THEN /\ out' = [out EXCEPT ![p].written = Append(@, Head(out[p].todo)),
                                  ![p].todo = Tail(@)]
            /\ pc' = [pc EXCEPT ![p] = "x_week"]
            /\ UNCHANGED <<steps, faults, journal, archJournal>>
       ELSE LET d == Head(out[p].dates) IN
            \E outcome \in {"ok", "fail"} :
               /\ Log(p, "archive_journal", outcome = "ok")
               /\ IF outcome = "ok"
                  THEN /\ journal' = archive_journal(d).journal
                       /\ archJournal' = archive_journal(d).archJournal
                       /\ out' = [out EXCEPT ![p].dates = Tail(@)]
                       /\ pc' = pc
                  ELSE /\ UNCHANGED <<journal, archJournal>>
                       /\ PipelineReturns(p, "ConsolidationFailed", out[p])
    /\ UNCHANGED <<now, longTerm, archive, lx, shadows, conn, lock, op, mem,
                   arg, queue, saved, rem, res, pre, pair, apiKey, digests,
                   identity, archIdentity, reflections>>

\* reflect.rs 19-20: the recent journals are read; an error is returned
ReflectRecent(p) ==
    /\ pc[p] = "x_recent"
    /\ \E outcome \in {"ok", "fail"} :
          LET recent == recent_journals(RecentCount) IN
          /\ Log(p, "recent", outcome = "ok")
          /\ IF outcome = "ok"
             THEN /\ out' = [out EXCEPT ![p].recent = recent]
                  /\ pc' = [pc EXCEPT ![p] =
                               IF recent = <<>> THEN "x_format" ELSE "x_identity"]
                  /\ res' = res
             ELSE /\ out' = out
                  /\ pc' = [pc EXCEPT ![p] = "done"]
                  /\ res' = [res EXCEPT ![p] = "CanonicalIOError"]
    /\ UNCHANGED <<now, cs, lx, shadows, conn, lock, op, mem, arg, queue,
                   saved, rem, pre, pair, consolidated>>

\* reflect.rs 21 and 43: the summarizer is asked for the identity card
ReflectIdentity(p) ==
    /\ pc[p] = "x_identity"
    /\ \E reply \in Replies(apiKey) :
          LET card == regenerate_identity(reply, out[p].recent) IN
          /\ Note(p, "regenerate", card.ok)
          /\ out' = [out EXCEPT
                       ![p].replies = Append(@, [call |-> "identity",
                                                 week |-> 0, reply |-> reply]),
                       ![p].text = card.v,
                       ![p].report = IF card.ok THEN @
                                     ELSE Append(@, "IdentityFailed")]
          /\ pc' = [pc EXCEPT ![p] = IF card.ok THEN "x_card" ELSE "x_format"]
    /\ UNCHANGED <<now, cs, lx, shadows, conn, lock, op, mem, arg, queue,
                   saved, rem, res, pre, pair, consolidated>>

\* reflect.rs 23-41: the old card, when it can be read, is copied to
\* archive/identity/<today>.md, then identity.md is overwritten; an error
\* of either write is returned
ReflectCard(p) ==
    /\ pc[p] = "x_card"
    /\ \E outcome \in {"ok", "fail_read", "fail_archive", "fail_write"} :
          LET old == identity # None /\ outcome # "fail_read" IN
          /\ outcome \in {"fail_read", "fail_archive"} => identity # None
          /\ Log(p, "card", outcome = "ok")
          /\ archIdentity' = IF old /\ outcome # "fail_archive"
                             THEN Put(archIdentity, Date(now), identity)
                             ELSE archIdentity
          /\ identity' = IF outcome \in {"ok", "fail_read"} THEN out[p].text
                         ELSE identity
          /\ IF outcome \in {"ok", "fail_read"}
             THEN /\ out' = [out EXCEPT ![p].report = Append(@, "IdentityRegenerated")]
                  /\ pc' = [pc EXCEPT ![p] = "x_format"]
                  /\ res' = res
             ELSE /\ out' = out
                  /\ pc' = [pc EXCEPT ![p] = "done"]
                  /\ res' = [res EXCEPT ![p] = "CanonicalIOError"]
    /\ UNCHANGED <<now, cs, lx, shadows, conn, lock, op, mem, arg, queue,
                   saved, rem, pre, pair, apiKey, digests, archJournal,
                   reflections>>

\* reflect.rs 48-52: the report is returned
ReflectFormat(p) ==
    /\ pc[p] = "x_format"
    /\ res' = [res EXCEPT ![p] = IF out[p].report = <<>> THEN "NothingToConsolidate"
                                 ELSE "ReflectionComplete"]
    /\ pc' = [pc EXCEPT ![p] = "done"]
    /\ UNCHANGED <<faults, now, cs, lx, shadows, conn, lock, op, mem, arg,
                   queue, saved, steps, rem, out, pre, pair, consolidated>>

(***************************************************************************)
(* tools/identity.rs: do_identity                                          *)
(***************************************************************************)
ContextCount == 2

\* the cold-start message whatever the card
IdentityMessageCold(card) == "ColdStart"

\* identity.rs 18-34: the card when there is one, else the cold-start message
IdentityMessage(card) == IF card = None THEN "ColdStart" ELSE "IdentityCard"

\* the identity tool is called: without identity.md the cold-start message,
\* otherwise the card and the recent journals; an error of either read is
\* returned
Identity(p) ==
    /\ pc[p] = "idle"
    /\ \E outcome \in {"ok", "fail_read", "fail_recent"} :
          /\ outcome # "ok" => identity # None
          /\ Log(p, "identity", outcome = "ok")
          /\ res' = [res EXCEPT ![p] =
                        IF outcome # "ok" THEN "CanonicalIOError"
                        ELSE IdentityMessage(identity)]
          /\ out' = [out EXCEPT ![p] =
                        IF outcome = "ok" /\ identity # None
                        THEN [NoOut EXCEPT !.text = identity,
                                           !.recent = recent_journals(ContextCount)]
                        ELSE NoOut]
    /\ op' = [op EXCEPT ![p] = "identity"]
    /\ pc' = [pc EXCEPT ![p] = "done"]
    /\ pre' = [pre EXCEPT ![p] = {Snapshot}]
    /\ UNCHANGED <<now, cs, lx, shadows, conn, lock, mem, arg, queue, saved,
                   rem, pair, consolidated>>

\* the server is idle for two weeks, or for two weeks and a day
Wait ==
    /\ now <= MaxTime
    /\ \A p \in Procs : pc[p] = "idle"
    /\ \E days \in {StaleDays, StaleDays + 1} : now' = now + days * DayLength
    /\ UNCHANGED <<journal, longTerm, archive, lx, vx, rxNodes, rxEdges,
                   vectors, graph, lock, pc, op, mem, arg, queue, saved,
                   steps, rem, res, out, pre, pair, faults, consolidated>>

\* the days on which the server is called
Calendar == {1, 7, 15, 16, 22}

\* the server is idle until a later day of the calendar
WaitUntil ==
    /\ \A p \in Procs : pc[p] = "idle"
    /\ \E d \in Calendar : d > Date(now) /\ now' = d * DayLength
    /\ UNCHANGED <<journal, longTerm, archive, lx, vx, rxNodes, rxEdges,
                   vectors, graph, lock, pc, op, mem, arg, queue, saved,
                   steps, rem, res, out, pre, pair, faults, consolidated>>

(***************************************************************************)
(* server.rs: the tool wrapper hands the message to the client             *)
(***************************************************************************)
\* what the call just served leaves for the next one to compare with: the
\* stores before a remember, the outcome of the digest pipeline of a reflect
PairOf(p) ==
    IF op[p] = "remember" /\ res[p] = "Remembered"
    THEN {[id |-> mem[p].id, lx |-> s.lx, vx |-> s.vx, nodes |-> s.nodes,
           edges |-> s.edges] : s \in pre[p]}
    ELSE IF op[p] = "reflect"
         THEN {[id |-> <<>>, report |-> out[p].report,
                cutoff |-> Date(out[p].at) - StaleDays]}
         ELSE IF op[p] = "identity" THEN pair
         ELSE {}

Return(p) ==
    /\ pc[p] = "done"
    /\ pair' = PairOf(p)
    /\ pc' = [pc EXCEPT ![p] = "idle"]
    /\ op' = [op EXCEPT ![p] = None]
    /\ mem' = [mem EXCEPT ![p] = NoMem]
    /\ arg' = [arg EXCEPT ![p] = NoArg]
    /\ queue' = [queue EXCEPT ![p] = <<>>]
    /\ saved' = [saved EXCEPT ![p] = 0]
    /\ steps' = [steps EXCEPT ![p] = <<>>]
    /\ rem' = [rem EXCEPT ![p] = None]
    /\ res' = [res EXCEPT ![p] = None]
    /\ out' = [out EXCEPT ![p] = NoOut]
    /\ pre' = [pre EXCEPT ![p] = {}]
    /\ UNCHANGED <<faults, now, cs, lx, shadows, conn, lock>>
    /\ UNCHANGED consolidated

(***************************************************************************)
(* The engine serving one call at a time.                                  *)
(***************************************************************************)
Next ==
    \/ Tick
    \/ \E p \in SeqProcs :
          \/ Remember(p)
          \/ RememberJournal(p)
          \/ RememberLongTerm(p)
          \/ RememberIndex(p)
          \/ RememberEmbed(p)
          \/ RememberNode(p)
          \/ RememberLink(p)
          \/ RememberFormat(p)
          \/ Forget(p)
          \/ ForgetDelete(p)
          \/ ForgetArchive(p)
          \/ ForgetVectors(p)
          \/ ForgetGraph(p)
          \/ ForgetFormat(p)
          \/ Recall(p)
          \/ AutoExtract(p)
          \/ AutoExtractNext(p)
          \/ Return(p)

Spec == Init /\ [][Next]_vars

(***************************************************************************)
(* The engine serving remember calls on one task and forget calls on       *)
(* another at the same time: the tool handlers are futures that share the  *)
(* store behind one tokio Mutex, and each proceeds from one store call to  *)
(* the next on its own.                                                    *)
(***************************************************************************)
NextConcurrent ==
    \/ Remember("t1")
    \/ RememberJournal("t1")
    \/ RememberLongTerm("t1")
    \/ RememberIndex("t1")
    \/ RememberEmbed("t1")
    \/ RememberNode("t1")
    \/ RememberLink("t1")
    \/ RememberFormat("t1")
    \/ Forget("t2")
    \/ ForgetDelete("t2")
    \/ ForgetArchive("t2")
    \/ ForgetVectors("t2")
    \/ ForgetGraph("t2")
    \/ ForgetFormat("t2")
    \/ \E p \in Procs : Return(p)

SpecConcurrent == Init /\ [][NextConcurrent]_vars

(***************************************************************************)
(* The engine over weeks, started with neither Qdrant nor Neo4j reachable: *)
(* memories are remembered, the server is idle while the journals grow     *)
(* old, reflect and auto_extract call the summarizer, with or without a    *)
(* credential.                                                             *)
(***************************************************************************)
InitReflect ==
    /\ InitStore
    /\ ~vectors /\ ~graph
    /\ apiKey \in {"", "key"}

NextReflect ==
    \/ Wait
    \/ \E p \in SeqProcs :
          \/ Remember(p)
          \/ RememberJournal(p)
          \/ RememberLongTerm(p)
          \/ RememberIndex(p)
          \/ RememberFormat(p)
          \/ AutoExtract(p)
          \/ AutoExtractNext(p)
          \/ Reflect(p)
          \/ ReflectStale(p)
          \/ ReflectWeek(p)
          \/ ReflectDigest(p)
          \/ ReflectArchive(p)
          \/ ReflectRecent(p)
          \/ ReflectIdentity(p)
          \/ ReflectCard(p)
          \/ ReflectFormat(p)
          \/ Return(p)

SpecReflect == InitReflect /\ [][NextReflect]_vars

(***************************************************************************)
(* The engine and its inputs, with neither Qdrant nor Neo4j reachable:     *)
(* remember is called with any spelling of the gate, auto_extract parses   *)
(* whatever text the summarizer returns and saves the entries one after    *)
(* the other.                                                              *)
(***************************************************************************)
InitLocal ==
    /\ InitStore
    /\ ~vectors /\ ~graph
    /\ apiKey = "key"

NextExtract ==
    \E p \in SeqProcs :
        \/ RememberAny(p)
        \/ AutoExtractAny(p)
        \/ AutoExtractNext(p)
        \/ RememberJournal(p)
        \/ RememberLongTerm(p)
        \/ RememberIndex(p)
        \/ RememberFormat(p)
        \/ Return(p)

SpecExtract == InitLocal /\ [][NextExtract]_vars

(***************************************************************************)
(* The engine with Neo4j reachable and Qdrant not: memories are remembered *)
(* and linked, and edges are added between them under any relation name.   *)
(***************************************************************************)
InitGraph ==
    /\ InitStore
    /\ ~vectors /\ graph
    /\ apiKey = "key"

NextGraph ==
    \E p \in SeqProcs :
        \/ Remember(p)
        \/ RememberJournal(p)
        \/ RememberLongTerm(p)
        \/ RememberIndex(p)
        \/ RememberNode(p)
        \/ RememberLink(p)
        \/ RememberFormat(p)
        \/ AddEdge(p)
        \/ Return(p)

SpecGraph == InitGraph /\ [][NextGraph]_vars

(***************************************************************************)
(* The engine read back within two weeks of its first memory, with neither *)
(* Qdrant nor Neo4j reachable: memories are remembered, reflect finds no   *)
(* journal old enough and regenerates the identity card, identity reads    *)
(* it.                                                                     *)
(***************************************************************************)
NextReads ==
    \E p \in SeqProcs :
        \/ Remember(p)
        \/ RememberJournal(p)
        \/ RememberLongTerm(p)
        \/ RememberIndex(p)
        \/ RememberFormat(p)
        \/ Reflect(p)
        \/ ReflectStale(p)
        \/ ReflectRecent(p)
        \/ ReflectIdentity(p)
        \/ ReflectCard(p)
        \/ ReflectFormat(p)
        \/ Identity(p)
        \/ RecallFiles(p)
        \/ Return(p)

SpecReads == InitLocal /\ [][NextReads]_vars

(***************************************************************************)
(* The engine over several weeks: notes are remembered on days of the      *)
(* calendar and reflect consolidates the journals that have become stale.  *)
(***************************************************************************)
DigestEntries == {Entry("note", "relational", "alex", "kit")}

RememberNote(p) == RememberWith(p, DigestEntries)

NextDigest ==
    \/ WaitUntil
    \/ \E p \in SeqProcs :
          \/ RememberNote(p)
          \/ RememberJournal(p)
          \/ RememberLongTerm(p)
          \/ RememberIndex(p)
          \/ RememberFormat(p)
          \/ Reflect(p)
          \/ ReflectStale(p)
          \/ ReflectWeek(p)
          \/ ReflectDigest(p)
          \/ ReflectArchive(p)
          \/ ReflectRecent(p)
          \/ ReflectIdentity(p)
          \/ ReflectCard(p)
          \/ ReflectFormat(p)
          \/ Return(p)

SpecDigest == InitLocal /\ [][NextDigest]_vars

(***************************************************************************)
(* The engine serving any two calls at the same time. A handler that has   *)
(* been called goes on from one store call to the next, and the tokio      *)
(* Mutex hands the store to its waiters in the order they asked for it.    *)
(***************************************************************************)
\* the handler of task p takes its next step
Proceed(p) ==
    \/ RememberJournal(p)
    \/ RememberLongTerm(p)
    \/ RememberIndex(p)
    \/ RememberEmbed(p)
    \/ RememberNode(p)
    \/ RememberLink(p)
    \/ RememberFormat(p)
    \/ AutoExtractNext(p)
    \/ ForgetDelete(p)
    \/ ForgetArchive(p)
    \/ ForgetVectors(p)
    \/ ForgetGraph(p)
    \/ ForgetFormat(p)

\* the summarizer finds one note in the first transcript
AutoExtractNote(p) ==
    /\ JournalEntryCount = 0
    /\ AutoExtractWith(p, BriefTexts, MaxExtract, DigestEntries)

\* a tool of the server is called: one task remembers and extracts, the
\* other forgets and recalls
Call(p) ==
    \/ p = "t1" /\ RememberNote(p)
    \/ p = "t1" /\ AutoExtractNote(p)
    \/ p = "t2" /\ Forget(p)
    \/ p = "t2" /\ Recall(p)

NextLive == \E p \in Procs : Call(p) \/ Proceed(p) \/ Return(p)

\* the server started with Qdrant and Neo4j reachable
InitConnected == InitStore /\ vectors /\ graph /\ apiKey = "key"

SpecLive ==
    /\ InitConnected
    /\ [][NextLive]_vars
    /\ \A p \in Procs : SF_vars(Proceed(p))


(***************************************************************************)
(* Properties.                                                             *)
(***************************************************************************)
InRemember(p) == op[p] \in {"remember", "auto_extract"}

Made(p, name, ok) == Step(name, ok) \in Range(steps[p])

JournalHas(m) ==
    /\ Date(m.created) \in DOMAIN journal
    /\ JournalLine(m) \in Range(journal[Date(m.created)])

HasFile(m) ==
    /\ LongTermPath(m) \in DOMAIN longTerm
    /\ longTerm[LongTermPath(m)] = [front |-> to_yaml(m), body |-> m.content]

PointsOf(id) == {q \in DOMAIN vx : q.memory_id = id}

\* the category of a gate as the data model fixes it
CategoryOfGate(gate) ==
    CASE gate = "relational" -> "people"
      [] gate = "epistemic" -> "learnings"
      [] gate = "behavioral" -> "decisions"
      [] gate = "promissory" -> "commitments"

\* C1: in every reachable state, whatever calls were served and whichever
\* store steps failed, every memory row of LX has a long-term file in CS at
\* long-term/<category(gate)>/<slug(id)>.md
C1_EveryRowHasItsFile ==
    \A id \in DOMAIN lx :
        <<CategoryOfGate(lx[id].gate), slugify(id)>> \in DOMAIN longTerm

\* C1 witness: a row that was recalled is in LX next to a forgotten memory,
\* after a store step failed
C1_Witness ==
    /\ faults > 0
    /\ DOMAIN archive # {}
    /\ \E id \in DOMAIN lx :
          /\ lx[id].access_count > 1
          /\ <<CategoryOfGate(lx[id].gate), slugify(id)>> \in DOMAIN longTerm

RememberOrder == <<"journal", "long_term", "index", "embed", "node", "link">>

Rank(name) == CHOOSE i \in DOMAIN RememberOrder : RememberOrder[i] = name

\* C2: within one remember the store steps occur in the order journal
\* append, long-term write, LX upsert, and all three have completed before
\* any VX or RX step of that call begins
C2_RememberOrder ==
    \A p \in Procs :
        InRemember(p) =>
            /\ \A i, j \in DOMAIN steps[p] :
                  i < j => Rank(steps[p][i].s) < Rank(steps[p][j].s)
            /\ \A i \in DOMAIN steps[p] :
                  steps[p][i].s \in {"embed", "node", "link"} =>
                      /\ i > 3
                      /\ steps[p][1] = Step("journal", TRUE)
                      /\ steps[p][2] = Step("long_term", TRUE)
                      /\ steps[p][3] = Step("index", TRUE)
                      /\ JournalHas(mem[p])
                      /\ HasFile(mem[p])
                      /\ mem[p].id \in DOMAIN lx

\* C2 witness: a remember has made all six store calls
C2_Witness ==
    \E p \in Procs :
        /\ op[p] = "remember"
        /\ Len(steps[p]) = 6
        /\ steps[p][4].s = "embed"
        /\ steps[p][6].s = "link"

\* C3: if the LX upsert of a remember fails, the call returns an error, the
\* journal entry and the long-term file of that memory are already in CS,
\* and neither VX nor RX has been modified by the call
C3_IndexFailure ==
    \A p \in Procs :
        (InRemember(p) /\ Made(p, "index", FALSE)) =>
            /\ rem[p] = "LexicalError"
            /\ pc[p] \in {"done", "ae_loop"}
            /\ op[p] = "remember" => res[p] = "LexicalError"
            /\ JournalHas(mem[p])
            /\ HasFile(mem[p])
            /\ \A s \in pre[p] :
                  vx = s.vx /\ rxNodes = s.nodes /\ rxEdges = s.edges

\* C3 witness: the upsert failed while both shadow stores were connected
\* and held an earlier memory
C3_Witness ==
    \E p \in Procs :
        /\ rem[p] = "LexicalError"
        /\ Made(p, "index", FALSE)
        /\ vectors /\ graph
        /\ vx # Empty /\ rxNodes # Empty

\* C4: whenever the CS and LX steps of remember succeed, or the LX delete
\* and the archive write of forget, the call returns its success string
\* whatever the VX and RX calls did, and the LX and CS effects are kept
C4_ShadowsNeverFail ==
    \A p \in Procs :
        /\ (/\ InRemember(p) /\ rem[p] # None
            /\ Made(p, "journal", TRUE) /\ Made(p, "long_term", TRUE)
            /\ Made(p, "index", TRUE)) =>
               /\ rem[p] = "Remembered"
               /\ mem[p].id \in DOMAIN lx
               /\ JournalHas(mem[p]) /\ HasFile(mem[p])
        /\ (/\ op[p] = "forget" /\ pc[p] = "done"
            /\ Made(p, "delete", TRUE) /\ Made(p, "archive", TRUE)) =>
               /\ res[p] = "Forgotten"
               /\ arg[p].id \notin DOMAIN lx
               /\ arg[p].id \in DOMAIN archive

RecallDone(p) == op[p] = "recall" /\ pc[p] = "done"

LineIds(p) == {out[p].lines[i].id : i \in DOMAIN out[p].lines}

LinesFrom(p, src) == {i \in DOMAIN out[p].lines : out[p].lines[i].src = src}

\* C5: recall never returns an error: whichever backends fail or are
\* disconnected, it returns the block of found memories or the no-memories
\* string, every backend that answered contributes its hits, and a line
\* comes only from a backend that answered
C5_RecallNeverFails ==
    \A p \in Procs :
        RecallDone(p) =>
            /\ res[p] \in {"Found", "NoMemories"}
            /\ res[p] = "NoMemories" <=> out[p].lines = <<>>
            /\ out[p].n = Len(out[p].lines)
            /\ out[p].lx.ok =>
                  \A id \in Range(out[p].lx.hits) :
                      \E i \in LinesFrom(p, "lx") : out[p].lines[i].id = id
            /\ out[p].vx.ok => Range(out[p].vx.hits) \subseteq LineIds(p)
            /\ \A i \in DOMAIN out[p].rx :
                  out[p].rx[i].ok => Range(out[p].rx[i].hits) \subseteq LineIds(p)
            /\ LinesFrom(p, "lx") # {} => out[p].lx.ok
            /\ LinesFrom(p, "vx") # {} => vectors /\ out[p].vx.ok
            /\ LinesFrom(p, "rx") # {} =>
                  graph /\ \E i \in DOMAIN out[p].rx : out[p].rx[i].ok
            /\ Cardinality(LinesFrom(p, "file")) = Cardinality(out[p].files)

\* C5 witness: the full-text search failed and the vector search answered,
\* and the memories it found are returned
C5_Witness ==
    \E p \in Procs :
        /\ RecallDone(p)
        /\ ~out[p].lx.ok
        /\ out[p].vx.ok /\ out[p].vx.hits # <<>>
        /\ \E id \in DOMAIN lx : FtsMatch(arg[p].query, lx[id])
        /\ res[p] = "Found"

Forgotten(p) == op[p] = "forget" /\ pc[p] = "done" /\ res[p] = "Forgotten"

Archived(p) ==
    /\ arg[p].id \in DOMAIN archive
    /\ archive[arg[p].id].reason = arg[p].reason
    /\ archive[arg[p].id].original_gate = Gate_as_str(mem[p].gate)
    /\ archive[arg[p].id].content = mem[p].content

\* C6 as stated: after forget returns 'Forgotten', LX has no row with the
\* id, archive/<id>.md exists with the archival frontmatter, VX has no point
\* with that memory_id and RX has no node with that id
C6_AfterForget ==
    \A p \in Procs :
        Forgotten(p) =>
            /\ arg[p].id \notin DOMAIN lx
            /\ Archived(p)
            /\ PointsOf(arg[p].id) = {}
            /\ arg[p].id \notin DOMAIN rxNodes

\* C6 amended: after forget returns 'Forgotten', LX has no row with the id
\* and archive/<id>.md exists with the archival frontmatter; VX has no point
\* with that memory_id when the delete call to VX succeeded, and RX has no
\* node with that id when the delete call to RX succeeded
C6_AfterForgetBestEffort ==
    \A p \in Procs :
        Forgotten(p) =>
            /\ arg[p].id \notin DOMAIN lx
            /\ Archived(p)
            /\ Made(p, "delete_point", TRUE) => PointsOf(arg[p].id) = {}
            /\ Made(p, "delete_node", TRUE) => arg[p].id \notin DOMAIN rxNodes

\* C6 witness: a forget whose deletes in VX and RX succeeded on a memory
\* that had a point and a node
C6_Witness ==
    \E p \in Procs :
        /\ Forgotten(p)
        /\ Made(p, "delete_point", TRUE) /\ Made(p, "delete_node", TRUE)
        /\ \E s \in pre[p] :
              /\ \E q \in DOMAIN s.vx : q.memory_id = arg[p].id
              /\ arg[p].id \in DOMAIN s.nodes

\* C7: a forget of an id that is in VX or RX but not in LX removes the VX
\* points and the RX node carrying that id
C7_StaleShadowsRepaired ==
    \A p \in Procs :
        (op[p] = "forget" /\ pc[p] = "done") =>
            \A s \in pre[p] :
                (/\ arg[p].id \notin DOMAIN s.lx
                 /\ \/ \E q \in DOMAIN s.vx : q.memory_id = arg[p].id
                    \/ arg[p].id \in DOMAIN s.nodes) =>
                    /\ PointsOf(arg[p].id) = {}
                    /\ arg[p].id \notin DOMAIN rxNodes

\* C8: after a successful forget no file long-term/<category>/<slug(id)>.md
\* exists for the id, and archive/<id>.md holds the memory instead
C8_MovedOutOfLongTerm ==
    \A p \in Procs :
        Forgotten(p) =>
            /\ \A k \in DOMAIN longTerm : k[2] # slugify(arg[p].id)
            /\ Archived(p)

\* C9: a forget that finds no row in LX returns the not-found message and
\* leaves CS unchanged (no archive/<id>.md is created) and LX unchanged;
\* when the lookup itself fails the error is returned with the same frame
C9_ForgetUnknown ==
    \A p \in Procs :
        (op[p] = "forget" /\ pc[p] = "done") =>
            \A s \in pre[p] :
                arg[p].id \notin DOMAIN s.lx =>
                    /\ Made(p, "delete", TRUE) => res[p] = "NotFound"
                    /\ Made(p, "delete", FALSE) => res[p] = "LexicalError"
                    /\ Len(steps[p]) = 1
                    /\ lx = s.lx
                    /\ journal = s.journal
                    /\ longTerm = s.longTerm
                    /\ archive = s.archive

\* C9 witness: the not-found message for an id that once was in LX and has
\* an archive file and a stale point in VX
C9_Witness ==
    \E p \in Procs :
        /\ op[p] = "forget" /\ pc[p] = "done"
        /\ res[p] = "NotFound"
        /\ arg[p].id \in DOMAIN archive
        /\ DOMAIN lx # {}

\* C10: remember followed by forget of the id it returned leaves the rows
\* of LX, the points of VX and the nodes and edges of RX as they were before
\* the pair
C10_RememberForgetRoundTrip ==
    \A p \in Procs :
        Forgotten(p) =>
            \A s \in pair :
                s.id = arg[p].id =>
                    /\ lx = s.lx
                    /\ vx = s.vx
                    /\ rxNodes = s.nodes
                    /\ rxEdges = s.edges


Remembered(p) == InRemember(p) /\ rem[p] = "Remembered"

\* C11: a successful remember yields an id that no earlier memory carries:
\* before the call LX has no row with that id and no row whose long-term
\* file has the slug of that id, so no row and no file is overwritten
C11_DistinctIds ==
    \A p \in Procs :
        Remembered(p) =>
            \A s \in pre[p] :
                /\ mem[p].id \notin DOMAIN s.lx
                /\ \A id \in DOMAIN s.lx : slugify(id) # slugify(mem[p].id)

IdLines(p) == {i \in DOMAIN out[p].lines : out[p].lines[i].src # "file"}

\* the first backend, in the order LX, VX, RX, that returned the id
FirstSource(p, id) ==
    IF id \in Range(out[p].lx.hits) THEN "lx"
    ELSE IF id \in Range(out[p].vx.hits) THEN "vx" ELSE "rx"

\* C12: the lines of a recall never carry the same memory id twice, and the
\* line of an id is the line of the first backend that returned it in the
\* order LX, VX, RX
C12_NoDuplicateIds ==
    \A p \in Procs :
        RecallDone(p) =>
            /\ \A i, j \in IdLines(p) :
                  i # j => out[p].lines[i].id # out[p].lines[j].id
            /\ \A i \in IdLines(p) :
                  out[p].lines[i].src = FirstSource(p, out[p].lines[i].id)

\* C12 witness: an id returned by LX and by VX, and a traversal that
\* returned an id already listed
C12_Witness ==
    \E p \in Procs :
        /\ RecallDone(p)
        /\ Range(out[p].lx.hits) \cap Range(out[p].vx.hits) # {}
        /\ \E i \in DOMAIN out[p].rx :
              /\ out[p].rx[i].ok
              /\ Range(out[p].rx[i].hits) \cap Range(out[p].vx.hits) # {}

\* C13 as stated: every memory whose id appears in a recall result, found
\* by LX, VX or RX, has its access_count incremented by one and its
\* last_accessed set to now by that recall
C13_EveryHitTouched ==
    \A p \in Procs :
        RecallDone(p) =>
            \A s \in pre[p] :
                \A id \in LineIds(p) \cap DOMAIN s.lx :
                    /\ lx[id].access_count = s.lx[id].access_count + 1
                    /\ lx[id].last_accessed = to_rfc3339(out[p].at)

\* C13 amended: a recall touches the full-text hits of LX only: each such
\* hit whose UPDATE succeeded has access_count incremented by one and
\* last_accessed set to now; every other row, among them the memories found
\* only by VX or by the RX traversal, is left as it was
C13_LexicalHitsTouched ==
    \A p \in Procs :
        RecallDone(p) =>
            \A s \in pre[p] :
                /\ DOMAIN lx = DOMAIN s.lx
                /\ out[p].touched \subseteq Range(out[p].lx.hits)
                /\ \A id \in DOMAIN lx :
                      IF id \in out[p].touched
                      THEN /\ lx[id].access_count = s.lx[id].access_count + 1
                           /\ lx[id].last_accessed = to_rfc3339(out[p].at)
                           /\ [lx[id] EXCEPT !.access_count = 0, !.last_accessed = 0]
                                = [s.lx[id] EXCEPT !.access_count = 0, !.last_accessed = 0]
                      ELSE lx[id] = s.lx[id]

\* C13 witness: one memory is a touched full-text hit, another is listed
\* from the vector search only and keeps its row
C13_Witness ==
    \E p \in Procs :
        /\ RecallDone(p)
        /\ out[p].touched # {}
        /\ \E i \in LinesFrom(p, "vx") :
              /\ out[p].lines[i].id \in DOMAIN lx
              /\ \A s \in pre[p] : lx[out[p].lines[i].id] = s.lx[out[p].lines[i].id]

TouchesOf(p, id) ==
    {k \in DOMAIN out[p].trace : out[p].trace[k] = Event("touch", id)}

PushesOf(p, id) ==
    {k \in DOMAIN out[p].trace : out[p].trace[k] = Event("push", id)}

TouchedOnceBefore(p) ==
    /\ \A id \in Range(out[p].lx.hits) :
          /\ Cardinality(TouchesOf(p, id)) = 1
          /\ Cardinality(PushesOf(p, id)) = 1
          /\ \A t \in TouchesOf(p, id), u \in PushesOf(p, id) : t < u
          /\ \E i \in LinesFrom(p, "lx") : out[p].lines[i].id = id
    /\ \A k \in DOMAIN out[p].trace : out[p].trace[k].id \in Range(out[p].lx.hits)

\* C14 as stated: each full-text hit is touched exactly once and before its
\* line is appended, and a hit that had access_count 1 has access_count 2
\* after the recall
C14_TouchBeforeLine ==
    \A p \in Procs :
        RecallDone(p) =>
            /\ TouchedOnceBefore(p)
            /\ \A s \in pre[p] :
                  \A id \in Range(out[p].lx.hits) :
                      s.lx[id].access_count = 1 => lx[id].access_count = 2

\* C14 amended: for each full-text hit the touch is called exactly once and
\* before its line is appended; a hit that had access_count 1 has
\* access_count 2 after the recall when its touch succeeded, and keeps
\* access_count 1 when the touch failed, whose error is dropped
C14_TouchCalledBeforeLine ==
    \A p \in Procs :
        RecallDone(p) =>
            /\ TouchedOnceBefore(p)
            /\ \A s \in pre[p] :
                  \A id \in Range(out[p].lx.hits) :
                      s.lx[id].access_count = 1 =>
                          lx[id].access_count = IF id \in out[p].touched THEN 2 ELSE 1

\* C14 witness: a recall right after the remember of the memory lists it as
\* a full-text hit and its access_count is 2
C14_Witness ==
    \E p \in Procs :
        /\ RecallDone(p)
        /\ \E id \in Range(out[p].lx.hits) :
              /\ id \in out[p].touched
              /\ lx[id].access_count = 2
              /\ \A s \in pre[p] : s.lx[id].access_count = 1


\* the task has made a store call of its remember or forget and is about
\* to make the next one
MidFanOut(p) ==
    /\ op[p] \in {"remember", "forget"}
    /\ steps[p] # <<>>
    /\ pc[p] \in {"r_long_term", "r_index", "r_embed", "r_node", "r_link",
                  "f_archive", "f_vectors", "f_graph"}

\* C15: when a remember and a forget run concurrently, no store step of one
\* occurs between two store steps of the other: a task makes a store call
\* only while no other task is between two store calls of its own
C15_NoInterleaving ==
    [][\A p, q \in Procs :
          (p # q /\ steps'[q] # steps[q] /\ steps'[q] # <<>>) => ~MidFanOut(p)]_vars


InReflect(p) == op[p] = "reflect"

\* 1 for the calls of the digest pipeline, 2 for those of the identity card
Phase(name) ==
    IF name \in {"stale", "read_journal", "consolidate", "digest_write",
                 "archive_journal"} THEN 1 ELSE 2

\* the non-empty files of the last count dates of a journal directory
RecentOf(dir, count) ==
    LET dates == Sorted(DOMAIN dir)
        n == Len(dates)
    IN  SelectSeq([i \in 1..n |-> dir[dates[i]]],
                  LAMBDA f : f # <<>> /\ \E i \in 1..n :
                                 i > n - count /\ dir[dates[i]] = f)

\* C16: within one reflect the digest pipeline has returned, with or
\* without an error, before identity regeneration reads a journal or calls
\* the summarizer, and what it reads is journal/ as the pipeline left it
C16_DigestBeforeIdentity ==
    \A p \in Procs :
        InReflect(p) =>
            /\ \A i, j \in DOMAIN steps[p] :
                  i < j => Phase(steps[p][i].s) <= Phase(steps[p][j].s)
            /\ (\E i \in DOMAIN steps[p] : Phase(steps[p][i].s) = 2) =>
                  /\ out[p].ended
                  /\ out[p].report # <<>>
                  /\ out[p].report[1] \in
                        {"NothingOld", "Consolidated", "ConsolidationFailed"}
                  /\ journal = out[p].left
            /\ Made(p, "recent", TRUE) =>
                  out[p].recent = RecentOf(out[p].left, RecentCount)

\* C16 witness: a reflect that archived a journal and then regenerated the
\* identity card from the journal that was left
C16_Witness ==
    \E p \in Procs :
        /\ InReflect(p) /\ pc[p] = "done"
        /\ Made(p, "archive_journal", TRUE)
        /\ Made(p, "card", TRUE)
        /\ out[p].recent # <<>>
        /\ \A s \in pre[p] : DOMAIN journal # DOMAIN s.journal

\* the reflect writes no digest and archives no journal
NoDigestWork(p) ==
    /\ ~Made(p, "digest_write", TRUE)
    /\ ~Made(p, "archive_journal", TRUE)
    /\ \A s \in pre[p] :
          /\ digests = s.digests
          /\ archJournal = s.archJournal
          /\ journal = s.journal

\* C17 as stated: a reflect that follows a reflect with no journal written
\* in between writes no digests/<week>.md and archives no journal
C17_SecondReflectNoOp ==
    \A p \in Procs :
        \A s \in pair :
            (InReflect(p) /\ s.id = <<>>) => NoDigestWork(p)

\* C17 amended: a reflect that follows a reflect whose digest pipeline
\* returned without error, with no journal written in between and no journal
\* having passed the age of 14 days since, writes no digests/<week>.md and
\* archives no journal
C17_SecondReflectNoOpAfterSuccess ==
    \A p \in Procs :
        \A s \in pair :
            (/\ InReflect(p) /\ s.id = <<>>
             /\ s.report[1] \in {"NothingOld", "Consolidated"}
             /\ \A t \in pre[p] : \A d \in DOMAIN t.journal :
                   ~(s.cutoff <= d /\ d < Date(now) - StaleDays)) =>
                NoDigestWork(p)

\* C17 witness: the first reflect consolidated a week, the second one has
\* run its digest pipeline and found nothing
C17_Witness ==
    \E p \in Procs :
        /\ InReflect(p) /\ pc[p] = "done"
        /\ out[p].report # <<>> /\ out[p].report[1] = "NothingOld"
        /\ archJournal # Empty
        /\ \E s \in pair : s.id = <<>> /\ s.report[1] = "Consolidated"

SummarizerSucceeded(p) ==
    \A i \in DOMAIN out[p].replies :
        out[p].replies[i].call = "consolidate" => out[p].replies[i].reply = "ok"

\* every journal older than 14 days is archived, every other one is kept
OldArchivedRestKept(p) ==
    \A s \in pre[p] :
        \A d \in DOMAIN s.journal :
            IF d < Date(now) - 14
            THEN /\ d \notin DOMAIN journal
                 /\ d \in DOMAIN archJournal
                 /\ archJournal[d] = s.journal[d]
            ELSE /\ d \in DOMAIN journal
                 /\ journal[d] = s.journal[d]

\* C18 as stated: after the digest pipeline of a reflect whose summarizer
\* calls succeeded, every journal dated before today - 14 is under
\* archive/journal/ and absent from journal/, and every journal dated
\* today - 14 or later is still under journal/
C18_StaleSelection ==
    \A p \in Procs :
        (InReflect(p) /\ out[p].ended /\ SummarizerSucceeded(p)) =>
            OldArchivedRestKept(p)

\* C18 amended: the same after a digest pipeline that returned without
\* error, that is whose summarizer calls and file operations all succeeded
C18_StaleSelectionOnSuccess ==
    \A p \in Procs :
        (/\ InReflect(p) /\ out[p].ended /\ SummarizerSucceeded(p)
         /\ out[p].report[1] # "ConsolidationFailed") =>
            OldArchivedRestKept(p)

\* C18 witness: a journal older than 14 days was archived and a younger
\* one is still in journal/
C18_Witness ==
    \E p \in Procs :
        /\ InReflect(p) /\ out[p].ended /\ SummarizerSucceeded(p)
        /\ out[p].report[1] = "Consolidated"
        /\ archJournal # Empty
        /\ journal # Empty

\* C19: without a credential reflect and auto_extract make no summarizer
\* call, write no digest, archive no journal, leave identity.md as it was
\* and store no memory
C19_EmptyKeyDegrades ==
    \A p \in Procs :
        (apiKey = "" /\ op[p] \in {"reflect", "auto_extract"}) =>
            /\ out[p].replies = <<>>
            /\ \A s \in pre[p] :
                  /\ digests = s.digests
                  /\ archJournal = s.archJournal
                  /\ journal = s.journal
                  /\ identity = s.identity
                  /\ lx = s.lx

\* C20: a non-2xx response is an error for every summarizer call: the
\* digest pipeline writes no digest and archives no journal of that week,
\* identity regeneration neither archives nor overwrites identity.md, and
\* auto_extract stores no memory
C20_Non2xxIsError ==
    \A p \in Procs :
        op[p] \in {"reflect", "auto_extract"} =>
            \A i \in DOMAIN out[p].replies :
                LET r == out[p].replies[i] IN
                r.reply # "ok" =>
                    \A s \in pre[p] :
                        /\ r.call = "consolidate" =>
                              /\ r.week \in DOMAIN digests =>
                                    /\ r.week \in DOMAIN s.digests
                                    /\ digests[r.week] = s.digests[r.week]
                              /\ \A d \in DOMAIN s.journal :
                                    Week(d) = r.week => d \in DOMAIN journal
                        /\ r.call = "identity" =>
                              /\ identity = s.identity
                              /\ archIdentity = s.archIdentity
                        /\ r.call = "extract" =>
                              /\ pc[p] = "done" /\ res[p] = "UpstreamError"
                              /\ lx = s.lx


ExtractionAnswered(p) ==
    /\ op[p] = "auto_extract"
    /\ out[p].replies[1].reply = "ok"

\* the number of entries of the parse of the whole text, else of the
\* substring from the first '[' to the last ']', else of the empty list
ExpectedCount(text) ==
    LET opens == {i \in DOMAIN text : text[i] = "["}
        closes == {i \in DOMAIN text : text[i] = "]"}
        IsArray(t) == /\ Len(t) >= 2 /\ t[1] = "[" /\ t[Len(t)] = "]"
                      /\ \A i \in DOMAIN t : (1 < i /\ i < Len(t)) => t[i] = "o"
        first == CHOOSE i \in opens : \A j \in opens : i <= j
        last == CHOOSE i \in closes : \A j \in closes : j <= i
        sub == [i \in 1..(last - first + 1) |-> text[first + i - 1]]
    IN  IF IsArray(text) THEN Len(text) - 2
        ELSE IF opens # {} /\ closes # {} /\ first <= last /\ IsArray(sub)
             THEN Len(sub) - 2
             ELSE 0

\* C21: for every text the summarizer returns extract_memories returns a
\* list and never aborts: the parse of the whole text, else the parse of the
\* substring from the first '[' to the last ']', else the empty list
C21_ParsingTotal ==
    \A p \in Procs :
        ExtractionAnswered(p) =>
            /\ res[p] # "Panic"
            /\ out[p].n = ExpectedCount(out[p].text)


\* the gate strings among the inputs that spell one of the four gate names
\* in some letter case
GateSpellings == {"relational", "BEHAVIORAL", "Epistemic", "pRoMiSsOrY"}

StoresAsBefore(p) ==
    \A s \in pre[p] :
        /\ journal = s.journal /\ longTerm = s.longTerm /\ archive = s.archive
        /\ lx = s.lx /\ vx = s.vx
        /\ rxNodes = s.nodes /\ rxEdges = s.edges

\* C22: do_remember accepts exactly the four gate names in any letter
\* case; with any other gate string it returns the invalid-gate error and
\* leaves the journal, the long-term files, LX, VX and RX as they were
C22_GateParsing ==
    \A p \in Procs :
        (InRemember(p) /\ arg[p].gate # None) =>
            /\ rem[p] = "InvalidGate" <=> arg[p].gate \notin GateSpellings
            /\ rem[p] = "InvalidGate" =>
                  /\ StoresAsBefore(p)
                  /\ steps[p] = <<>>
                  /\ op[p] = "remember" => (pc[p] = "done" /\ res[p] = "InvalidGate")

\* C22 witness: remember was called with a gate name followed by a blank
\* on a store that holds a memory, and has returned the invalid-gate error
C22_Witness ==
    \E p \in Procs :
        /\ op[p] = "remember" /\ pc[p] = "done" /\ res[p] = "InvalidGate"
        /\ arg[p].gate = "relational "
        /\ lx # Empty


\* the characters of [A-Za-z0-9_] among those of a relation name
WordChars == {"a", "Z", "_"}

\* C23: the relation name add_edge interpolates into the query contains
\* only characters of [A-Za-z0-9_], and a relation of which nothing remains
\* after sanitization makes add_edge fail without a query to RX
C23_RelationSanitized ==
    \A p \in Procs :
        (op[p] = "add_edge" /\ pc[p] = "done") =>
            /\ \A i \in DOMAIN out[p].cypher : out[p].cypher[i] \in WordChars
            /\ (\A i \in DOMAIN arg[p].relation :
                    arg[p].relation[i] \notin WordChars) =>
                  /\ res[p] = "InvalidRelation"
                  /\ steps[p] = <<>>
                  /\ \A s \in pre[p] : rxEdges = s.edges


ReflectDone(p) == InReflect(p) /\ pc[p] = "done"

IdentityLines == {"IdentityRegenerated", "IdentityFailed"}

\* C24 as stated: when the digest pipeline fails reflect still runs
\* identity regeneration and returns a report with the failure line and the
\* identity line; when identity regeneration fails the digest line is still
\* reported
C24_ReportKeepsLines ==
    \A p \in Procs :
        ReflectDone(p) =>
            /\ out[p].report[1] = "ConsolidationFailed" =>
                  /\ res[p] = "ReflectionComplete"
                  /\ Len(out[p].report) = 2
                  /\ out[p].report[2] \in IdentityLines
            /\ Made(p, "regenerate", FALSE) =>
                  /\ res[p] = "ReflectionComplete"
                  /\ Len(out[p].report) = 2
                  /\ out[p].report[2] = "IdentityFailed"

\* C24 amended: when the digest pipeline fails reflect still reads the
\* recent journals and, when there is one, asks for the identity card; unless
\* a file operation of that part fails it returns a report with the failure
\* line, followed by the identity line when there was a recent journal, and
\* there is one whenever the pipeline failed at a summarizer call; when the
\* summarizer call of identity regeneration fails the digest line is still
\* reported
C24_ReportKeepsLinesUnlessIO ==
    \A p \in Procs :
        ReflectDone(p) =>
            /\ out[p].report[1] = "ConsolidationFailed" =>
                  /\ \E ok \in BOOLEAN : Made(p, "recent", ok)
                  /\ res[p] # "ReflectionComplete" =>
                        /\ res[p] = "CanonicalIOError"
                        /\ Made(p, "recent", FALSE) \/ Made(p, "card", FALSE)
                  /\ res[p] = "ReflectionComplete" =>
                        IF out[p].recent = <<>>
                        THEN out[p].report = <<"ConsolidationFailed">>
                        ELSE /\ Len(out[p].report) = 2
                             /\ out[p].report[2] \in IdentityLines
                  /\ (Made(p, "consolidate", FALSE) /\ Made(p, "recent", TRUE)) =>
                        out[p].recent # <<>>
            /\ Made(p, "regenerate", FALSE) =>
                  /\ res[p] = "ReflectionComplete"
                  /\ Len(out[p].report) = 2
                  /\ out[p].report[1] \in
                        {"NothingOld", "Consolidated", "ConsolidationFailed"}
                  /\ out[p].report[2] = "IdentityFailed"

\* C24 witness: the summarizer failed in the digest pipeline, the identity
\* card was regenerated all the same and both lines are in the report
C24_Witness ==
    \E p \in Procs :
        /\ ReflectDone(p)
        /\ Made(p, "consolidate", FALSE)
        /\ res[p] = "ReflectionComplete"
        /\ out[p].report = <<"ConsolidationFailed", "IdentityRegenerated">>


RowsWellFormed ==
    \A id \in DOMAIN lx :
        /\ lx[id].access_count >= 1
        /\ lx[id].last_accessed[2] >= lx[id].created[2]

\* C25: every row of LX has access_count >= 1 and last_accessed >= created,
\* and the access_count of a row (the memory of one id, while it is in LX)
\* never decreases
C25_RowsMonotone ==
    /\ []RowsWellFormed
    /\ [][\A id \in DOMAIN lx \cap DOMAIN lx' :
             lx'[id].access_count >= lx[id].access_count]_vars


\* C26: auto_extract invokes remember once per extracted entry in order,
\* the number in its message is the number of memories the call stored in
\* LX, and an entry whose remember fails does not keep the later entries
\* from being tried
C26_CountMatchesStored ==
    \A p \in Procs :
        (op[p] = "auto_extract" /\ out[p].n > 0) =>
            /\ Len(out[p].trace) <= Len(out[p].todo)
            /\ \A i \in DOMAIN out[p].trace : out[p].trace[i] = out[p].todo[i]
            /\ pc[p] = "done" =>
                  /\ res[p] = "AutoExtracted"
                  /\ out[p].trace = out[p].todo
                  /\ saved[p] = Cardinality(DOMAIN lx \ out[p].base)


\* every store is as it was when the call began
NothingChanged(p) ==
    \A s \in pre[p] :
        /\ journal = s.journal /\ longTerm = s.longTerm /\ archive = s.archive
        /\ digests = s.digests /\ archJournal = s.archJournal
        /\ archIdentity = s.archIdentity
        /\ IF identity = None THEN s.identity = None ELSE identity = s.identity
        /\ lx = s.lx /\ vx = s.vx
        /\ rxNodes = s.nodes /\ rxEdges = s.edges

\* C27: identity changes nothing in CS, LX, VX or RX; without identity.md
\* it returns the cold-start message, otherwise the card followed by the
\* recent journals (the last two), or the error of a failed read
C27_IdentityPureRead ==
    \A p \in Procs :
        (op[p] = "identity" /\ pc[p] = "done") =>
            /\ NothingChanged(p)
            /\ identity = None => res[p] = "ColdStart"
            /\ identity # None =>
                  \/ /\ res[p] = "IdentityCard"
                     /\ out[p].text = identity
                     /\ out[p].recent = RecentOf(journal, 2)
                  \/ /\ res[p] = "CanonicalIOError"
                     /\ Made(p, "identity", FALSE)

\* C27 witness: identity has returned a regenerated card with the journal
\* of the day as its context
C27_Witness ==
    \E p \in Procs :
        /\ op[p] = "identity" /\ pc[p] = "done"
        /\ res[p] = "IdentityCard"
        /\ out[p].recent # <<>>
        /\ archIdentity # Empty


CardsIn(dir) == {dir[d] : d \in DOMAIN dir}

\* C28: after any sequence of reflect calls every content that was once
\* identity.md and has been replaced is in a file under archive/identity/:
\* a reflect that replaces the card leaves the old one in the archive, and
\* no card leaves the archive
C28_OldCardsRetained ==
    \A p \in Procs :
        InReflect(p) =>
            \A s \in pre[p] :
                /\ (s.identity # None /\ identity # s.identity) =>
                      s.identity \in CardsIn(archIdentity)
                /\ CardsIn(s.archIdentity) \subseteq CardsIn(archIdentity)


\* the ids of the lines LX and VX contributed, in result order
BackendIds(p) ==
    LET l == SelectSeq(out[p].lines, LAMBDA x : x.src \in {"lx", "vx"})
    IN  [i \in DOMAIN l |-> l[i].id]

BackendLines(p) == {i \in DOMAIN out[p].lines : out[p].lines[i].src # "file"}

DigestCalls(p) == SelectSeq(out[p].replies, LAMBDA r : r.call = "consolidate")

\* the digest pipeline of the reflect ended because the summarizer call of
\* week w failed
SummaryFailedFor(p, w) ==
    /\ InReflect(p) /\ out[p].ended
    /\ out[p].report # <<>> /\ out[p].report[1] = "ConsolidationFailed"
    /\ DigestCalls(p) # <<>>
    /\ LET c == DigestCalls(p)[Len(DigestCalls(p))]
       IN  c.week = w /\ ~consolidate_entries(c.reply, <<>>).ok

\* the reflect has written the digest of the week it is working on
DigestWrittenInRun(p, w) ==
    /\ InReflect(p) /\ pc[p] = "x_archive"
    /\ out[p].todo # <<>> /\ Head(out[p].todo) = w
    /\ w \in DOMAIN digests /\ digests[w].text = out[p].text
    /\ \E j \in DOMAIN steps[p] :
          /\ steps[p][j] = Step("digest_write", TRUE)
          /\ \A k \in DOMAIN steps[p] : k > j => steps[p][k].s = "archive_journal"

\* after a failed summarizer call the journals of that week and of the later
\* weeks are in journal/, those of the earlier weeks are consolidated
FailedWeekKept ==
    \A p \in Procs : \A w \in {Week(d) : d \in out[p].stale} :
        SummaryFailedFor(p, w) =>
            \A d \in out[p].stale :
                IF Week(d) >= w
                THEN d \in DOMAIN out[p].left /\ d \notin DOMAIN archJournal
                ELSE /\ d \notin DOMAIN out[p].left
                     /\ d \in DOMAIN archJournal
                     /\ Week(d) \in DOMAIN digests

C32_PreviewNeverAborts ==
    \A p \in Procs :
        (InRemember(p) /\ rem[p] # None) =>
            /\ rem[p] # "Panic"
            /\ (/\ Made(p, "index", TRUE)
                /\ \A i \in DOMAIN steps[p] : steps[p][i].ok) =>
                   rem[p] = "Remembered"


\* the memories a forget has archived and that are no longer in LX
ForgottenIds == {id \in DOMAIN archive : id \notin DOMAIN lx}

\* the file is the archive file or the long-term file of the memory
HoldsContentOf(f, id) ==
    \/ f.dir = "archive" /\ f.key = id
    \/ f.dir = "long-term" /\ f.key[2] = id

\* C33: after forget(id) has succeeded no recall returns the forgotten
\* memory, neither as a result line of LX, VX or RX nor as a file preview
C33_ForgottenNotRecalled ==
    \A p \in Procs :
        RecallDone(p) =>
            \A id \in ForgottenIds :
                /\ \A i \in DOMAIN out[p].lines : out[p].lines[i].id # id
                /\ \A f \in out[p].files : ~HoldsContentOf(f, id)


\* C34: a memory is never removed from LX without being archived: every id
\* a forget took out of LX has a file archive/<id>.md, and a forget that
\* returned an error has left the row in LX
C34_RemovedIsArchived ==
    \A p \in Procs :
        (op[p] = "forget" /\ pc[p] = "done") =>
            \A s \in pre[p] :
                /\ \A id \in DOMAIN s.lx \ DOMAIN lx : id \in DOMAIN archive
                /\ (res[p] \in {"LexicalError", "CanonicalIOError"}
                       /\ arg[p].id \in DOMAIN s.lx) =>
                      arg[p].id \in DOMAIN lx


\* C35: a weekly digest covers every journal archived for its week: the
\* current digests/<week>.md was produced from input that included each
\* journal of that week under archive/journal/
C35_DigestCoversArchived ==
    \A d \in DOMAIN archJournal :
        /\ Week(d) \in DOMAIN digests
        /\ \E i \in DOMAIN digests[Week(d)].dates : digests[Week(d)].dates[i] = d


\* the store calls a handler makes with the store lock held
LockedCalls == {"index", "delete"}

\* the positions of a handler at which it holds the store lock
HoldsAt(p) ==
    pc[p] \in {"r_embed", "r_node", "r_link", "r_format", "f_archive",
               "f_vectors", "f_graph", "f_format"}

\* the lock is held by the handlers that are past their lock().await and
\* by nobody else: it is free again on every return
LockReleased == \A p \in Procs : lock = p <=> HoldsAt(p)

\* a handler takes the free lock, and takes it once in a call
TakenOnce ==
    \A p \in Procs :
        (lock # p /\ lock' = p) =>
            /\ lock = None
            /\ \A i \in DOMAIN steps[p] : steps[p][i].s \notin LockedCalls

\* C36: the store lock cannot deadlock: a handler takes it at most once and
\* gives it back on every exit path, auto_extract never holds it while it
\* calls remember, and every call that was issued completes
C36_NoDeadlock ==
    /\ []LockReleased
    /\ [][TakenOnce]_vars
    /\ \A p \in Procs : (pc[p] # "idle") ~> (pc[p] = "done")

\* C36 witness: a remember is waiting for the store lock that a forget holds
C36_Witness ==
    /\ pc["t1"] = "r_index"
    /\ lock = "t2"
    /\ pc["t2"] = "f_archive"


\* the calls to the vector store and to the graph store
ShadowCalls == {"embed", "node", "link", "delete_point", "delete_node"}

\* no call to VX or RX has failed: nothing has failed at all, or the one
\* call that failed is a CS or LX call of a handler that has not returned
NoShadowFailure ==
    \/ faults = 0
    \/ \E p \in Procs : \E i \in DOMAIN steps[p] :
          ~steps[p][i].ok /\ steps[p][i].s \notin ShadowCalls

\* C37: if no VX or RX call ever fails, then whenever the store lock is free
\* the memory ids of VX and the node ids of RX are ids of LX, for any
\* interleaving of concurrent calls
C37_ShadowsWithinLexical ==
    (lock = None /\ NoShadowFailure) =>
        /\ {q.memory_id : q \in DOMAIN vx} \subseteq DOMAIN lx
        /\ DOMAIN rxNodes \subseteq DOMAIN lx


\* a row without the two fields a recall may change
Untouched(row) == [row EXCEPT !.access_count = 0, !.last_accessed = 0]

\* C38: recall creates and deletes nothing: the set of LX rows, the VX
\* points, the RX nodes and edges and the CS files are as before, and the
\* only change is to access_count and last_accessed of at most 5 rows, all
\* of them returned by its LX search
C38_RecallChangesCountersOnly ==
    \A p \in Procs :
        RecallDone(p) =>
            \A s \in pre[p] :
                LET changed == {id \in DOMAIN lx \cap DOMAIN s.lx : lx[id] # s.lx[id]}
                IN  /\ DOMAIN lx = DOMAIN s.lx
                    /\ vx = s.vx /\ rxNodes = s.nodes /\ rxEdges = s.edges
                    /\ journal = s.journal /\ longTerm = s.longTerm
                    /\ archive = s.archive /\ digests = s.digests
                    /\ archJournal = s.archJournal
                    /\ archIdentity = s.archIdentity
                    /\ changed \subseteq Range(out[p].lx.hits)
                    /\ Cardinality(changed) <= FtsLimit
                    /\ \A id \in changed : Untouched(lx[id]) = Untouched(s.lx[id])

\* C38 witness: a recall over a store with a VX point and an RX node changed
\* the counters of one row and left another row as it was
C38_Witness ==
    \E p \in Procs :
        /\ RecallDone(p)
        /\ vx # Empty /\ rxNodes # Empty
        /\ \A s \in pre[p] :
              /\ \E id \in DOMAIN lx : lx[id] # s.lx[id]
              /\ \E id \in DOMAIN lx : lx[id] = s.lx[id]

====
